---- MODULE Spec2Model ----
(***************************************************************************)
(* Model of the tabulation layer and the population filter of the survey   *)
(* reporting tool (app.py, filters.py, section2.py, section3.py,           *)
(* section4.py, section_demography.py).                                    *)
(*                                                                         *)
(* A dataframe is a record  [columns, dtype, rows]  : the set of column    *)
(* names, the pandas dtype of every column and the sequence of rows, each  *)
(* row a function from column name to cell.  A cell is a record [k, n, s]: *)
(* k = "na" (NaN / None), k = "num" (a numeric code n) or k = "str" (a     *)
(* text s).  A percentage is kept as an integer number of tenths           *)
(* (50.0 % = 500), which is exactly what round(.., 1) can yield.           *)
(***************************************************************************)
EXTENDS Integers, Sequences, FiniteSets, TLC

VARIABLES df, args, out, pc

vars == <<df, args, out, pc>>

(***************************************************************************)
(* Bounds of the model.                                                    *)
(***************************************************************************)
MaxRows == 3
MaxBlock == 15
MaxLong == 80

(***************************************************************************)
(* Cells.                                                                  *)
(***************************************************************************)
NA == [k |-> "na", n |-> 0, s |-> ""]
Num(x) == [k |-> "num", n |-> x, s |-> ""]
Str(t) == [k |-> "str", n |-> 0, s |-> t]

isna(c) == c.k = "na"

\* Series.isin(values) for a set of numeric codes: NaN and text never match.
isin(c, values) == c.k = "num" /\ c.n \in values

\* Series.astype(str) of one cell: a float64 column prints 7 as "7.0",
\* NaN prints as "nan".
astype_str(c, dtype) ==
    IF c.k = "str" THEN c.s
    ELSE IF c.k = "na" THEN "nan"
    ELSE IF dtype = "float64" THEN ToString(c.n) \o ".0"
    ELSE ToString(c.n)

(***************************************************************************)
(* Optional arguments: None is [none |-> TRUE, ..].                        *)
(***************************************************************************)
NoneSet == [none |-> TRUE, v |-> {}]
SomeSet(S) == [none |-> FALSE, v |-> S]
NoneMap == [none |-> TRUE, m |-> <<>>]
SomeMap(f) == [none |-> FALSE, m |-> f]

(***************************************************************************)
(* Sequence helpers.                                                       *)
(***************************************************************************)
Range(f) == {f[i] : i \in DOMAIN f}

\* n copies of x.
Rep(x, n) == [i \in 1..n |-> x]

RECURSIVE SumSeq(_)
SumSeq(s) == IF s = <<>> THEN 0 ELSE Head(s) + SumSeq(Tail(s))

\* Number of positions of s holding x.
CountOf(s, x) == Cardinality({i \in DOMAIN s : s[i] = x})

\* The distinct elements of s in order of first appearance.
Unique(s) ==
    LET first == {i \in DOMAIN s : \A j \in 1..(i - 1) : s[j] # s[i]}
    IN [k \in 1..Cardinality(first) |->
          s[CHOOSE i \in first : Cardinality({j \in first : j <= i}) = k]]

(***************************************************************************)
(* Binary floating point.  tab["count"] / total * 100 is float64           *)
(* arithmetic: every operation yields the representable number nearest to  *)
(* its exact result, a tie going to the even mantissa.  A positive float   *)
(* is [m, pt]: the MantissaBits binary digits m (the first one 1) and the  *)
(* number pt of them that stand before the binary point.                   *)
(***************************************************************************)
MantissaBits == 53

Zero == [m |-> [i \in 1..MantissaBits |-> 0], pt |-> 0]

\* The w-digit binary numeral of n, most significant digit first.
RECURSIVE int_bits(_, _)
int_bits(n, w) ==
    IF w = 0 THEN <<>> ELSE Append(int_bits(n \div 2, w - 1), n % 2)

\* The number a binary numeral stands for.
RECURSIVE bits_int(_)
bits_int(b) ==
    IF b = <<>> THEN 0
    ELSE 2 * bits_int(SubSeq(b, 1, Len(b) - 1)) + b[Len(b)]

\* 2^i modulo s.
RECURSIVE pow2mod(_, _)
pow2mod(i, s) ==
    IF i = 0 THEN 1 % s
    ELSE LET h == pow2mod(i \div 2, s)
         IN IF i % 2 = 0 THEN (h * h) % s ELSE (2 * h * h) % s

\* The first n binary digits of r / s after the point (0 <= r < s), and
\* whether a nonzero remainder is left behind them.
frac_bits(r, s, n) ==
    [bits |-> [i \in 1..n |->
                 IF 2 * ((r * pow2mod(i - 1, s)) % s) >= s THEN 1 ELSE 0],
     rest |-> (r * pow2mod(n, s)) % s # 0]

\* The digits of m * k for a small factor k (k < 128), seven digits longer
\* than m, worked out eight digits at a time from the low end.
RECURSIVE mul_bits(_, _, _)
mul_bits(m, k, carry) ==
    IF m = <<>> THEN int_bits(carry, 7)
    ELSE LET cut == IF Len(m) > 8 THEN Len(m) - 8 ELSE 0
             t == bits_int(SubSeq(m, cut + 1, Len(m))) * k + carry
             w == 2 ^ (Len(m) - cut)
         IN mul_bits(SubSeq(m, 1, cut), k, t \div w)
                \o int_bits(t % w, Len(m) - cut)

\* m + 1 for a numeral m that holds a 0.
incr(m) ==
    LET z == CHOOSE i \in DOMAIN m :
                 m[i] = 0 /\ \A j \in (i + 1)..Len(m) : m[j] = 1
    IN [i \in DOMAIN m |-> IF i < z THEN m[i] ELSE IF i = z THEN 1 ELSE 0]

\* The float nearest to the numeral bits with pt digits before the point,
\* followed by a nonzero tail iff sticky.
fl(bits, pt, sticky) ==
    LET ones == {i \in DOMAIN bits : bits[i] = 1}
    IN IF ones = {} THEN Zero
       ELSE LET lead == CHOOSE i \in ones : \A j \in ones : i <= j
                digits == SubSeq(bits, lead, Len(bits))
                              \o [i \in 1..(MantissaBits + 1) |-> 0]
                m == SubSeq(digits, 1, MantissaBits)
                guard == digits[MantissaBits + 1]
                tail == sticky \/ \E i \in (MantissaBits + 2)..Len(digits) :
                                      digits[i] = 1
                up == guard = 1 /\ (tail \/ m[MantissaBits] = 1)
                e == pt - (lead - 1)
            IN IF ~up THEN [m |-> m, pt |-> e]
               ELSE IF \A i \in DOMAIN m : m[i] = 1
                    THEN [m |-> [i \in 1..MantissaBits |-> IF i = 1 THEN 1 ELSE 0],
                          pt |-> e + 1]
                    ELSE [m |-> incr(m), pt |-> e]

\* c / s in float64, for 0 <= c < 16 * s and s < 1024.
fdiv(c, s) ==
    LET f == frac_bits(c % s, s, MantissaBits + 12)
    IN fl(int_bits(c \div s, 4) \o f.bits, 4, f.rest)

\* x * k in float64, for a small whole k.
fmul(x, k) == fl(mul_bits(x.m, k, 0), x.pt + 7, FALSE)

\* The whole number nearest to the numeral bits with pt digits before the
\* point, a tie going to the even one.
rint(bits, pt) ==
    IF pt < 0 THEN 0
    ELSE LET whole == bits_int(SubSeq(bits, 1, pt))
             up == /\ bits[pt + 1] = 1
                   /\ \/ \E i \in (pt + 2)..Len(bits) : bits[i] = 1
                      \/ whole % 2 = 1
         IN IF up THEN whole + 1 ELSE whole

\* (num / den * 100).round(1), in tenths: numpy multiplies by ten in
\* float64, takes rint and divides by ten.
series_round1(num, den) ==
    LET x == fmul(fdiv(num, den), 100)
        y == fmul(x, 10)
    IN IF num = 0 THEN 0 ELSE rint(y.m, y.pt)

\* round(num / den * 100, 1), in tenths: the builtin rounds the exact
\* value of the float, a tie going to the even tenth.
builtin_round1(num, den) ==
    LET x == fmul(fdiv(num, den), 100)
    IN IF num = 0 THEN 0
       ELSE rint(mul_bits(x.m, 10, 0), x.pt + 7)

\* The largest denominator of the model.
MaxDen ==
    IF MaxLong >= 2 * MaxBlock + 2 THEN MaxLong ELSE 2 * MaxBlock + 2

\* Both roundings, computed once for every count and denominator of the
\* model (the sum of three metrics reaches three times the population).
Round1Table ==
    [den \in 1..MaxDen |->
        [num \in 0..(IF den <= 2 * MaxRows + 1 THEN 3 * den ELSE den) |->
            [series |-> series_round1(num, den),
             builtin |-> builtin_round1(num, den)]]]

round1(num, den) == Round1Table[den][num].series

py_round1(num, den) == Round1Table[den][num].builtin

(***************************************************************************)
(* DataFrame.sort_values(key, ascending=False) on a short table: rows in   *)
(* non-increasing key order, equal keys keeping their relative order.      *)
(***************************************************************************)
RECURSIVE InsertDesc(_, _, _)
InsertDesc(sorted, r, key) ==
    IF sorted = <<>> THEN <<r>>
    ELSE IF Head(sorted)[key] >= r[key]
         THEN <<Head(sorted)>> \o InsertDesc(Tail(sorted), r, key)
         ELSE <<r>> \o sorted

RECURSIVE sort_values_desc(_, _)
sort_values_desc(rows, key) ==
    IF rows = <<>> THEN <<>>
    ELSE InsertDesc(sort_values_desc(SubSeq(rows, 1, Len(rows) - 1), key),
                    rows[Len(rows)], key)

(***************************************************************************)
(* Tables.                                                                 *)
(***************************************************************************)
FreqColumns == <<"answer", "count", "percent">>

\* pd.DataFrame(columns=[...]) : no rows, fixed columns.
EmptyTable(cols) == [columns |-> cols, rows |-> <<>>]

\* df[col] as a sequence of cells.
Column(d, col) == [i \in 1..Len(d.rows) |-> d.rows[i][col]]

\* Series.value_counts().reset_index(): one row per distinct non-missing
\* value, by descending count, equal counts in order of first appearance.
value_counts(series) ==
    LET present == SelectSeq(series, LAMBDA c : ~isna(c))
        keys == Unique(present)
        raw == [i \in 1..Len(keys) |->
                  [answer |-> keys[i], count |-> CountOf(present, keys[i])]]
    IN sort_values_desc(raw, "count")

\* tab["percent"] = (tab["count"] / denom * 100).round(1)
with_percent(rows, denom) ==
    [i \in 1..Len(rows) |->
        [answer |-> rows[i].answer, count |-> rows[i].count,
         percent |-> round1(rows[i].count, denom)]]

counts_sum(rows) == SumSeq([i \in 1..Len(rows) |-> rows[i].count])

(***************************************************************************)
(* freq_single.                                                            *)
(***************************************************************************)
NoData == Str("no data")

map_fillna_drop(series, mapping, dtype) ==
    LET kept == SelectSeq(series,
                    LAMBDA c : c.k = "num" /\ c.n \in DOMAIN mapping)
    IN [i \in 1..Len(kept) |-> Str(mapping[kept[i].n])]

\* series.map(mapping).fillna(series.astype(str))
map_fillna(series, mapping, dtype) ==
    [i \in 1..Len(series) |->
        IF series[i].k = "num" /\ series[i].n \in DOMAIN mapping
        THEN Str(mapping[series[i].n])
        ELSE Str(astype_str(series[i], dtype))]

\* The common tail of every variant: exclusion, mapping, counting, percent.
freq_single_tail(series, dtype, mapping, exclude_values) ==
    LET s2 == IF exclude_values.none THEN series
              ELSE SelectSeq(series,
                       LAMBDA c : ~isin(c, exclude_values.v))
        s3 == IF mapping.none THEN s2
              ELSE map_fillna(s2, mapping.m, dtype)
        tab == value_counts(s3)
    IN IF s3 = <<>> THEN EmptyTable(FreqColumns)
       ELSE [columns |-> FreqColumns,
             rows |-> with_percent(tab, counts_sum(tab))]

freq_single_app_nodropna(d, col, mapping, exclude_values, include_null) ==
    IF col \notin d.columns THEN EmptyTable(FreqColumns)
    ELSE LET series == Column(d, col)
             s1 == IF include_null
                   THEN [i \in 1..Len(series) |->
                            IF isna(series[i]) THEN NoData ELSE series[i]]
                   ELSE series
         IN freq_single_tail(s1, d.dtype[col], mapping, exclude_values)

\* app.py, section2.py and section_demography.py (identical bodies).
freq_single_app(d, col, mapping, exclude_values, include_null) ==
    IF col \notin d.columns THEN EmptyTable(FreqColumns)
    ELSE LET series == Column(d, col)
             s1 == IF include_null
                   THEN [i \in 1..Len(series) |->
                            IF isna(series[i]) THEN NoData ELSE series[i]]
                   ELSE SelectSeq(series, LAMBDA c : ~isna(c))
         IN freq_single_tail(s1, d.dtype[col], mapping, exclude_values)

\* section3.py: always dropna, no include_null parameter.
freq_single_section3(d, col, mapping, exclude_values) ==
    IF col \notin d.columns THEN EmptyTable(FreqColumns)
    ELSE freq_single_tail(SelectSeq(Column(d, col), LAMBDA c : ~isna(c)),
                          d.dtype[col], mapping, exclude_values)

\* section4.py: neither dropna nor fillna before the mapping.
freq_single_section4(d, col, mapping, exclude_values) ==
    IF col \notin d.columns THEN EmptyTable(FreqColumns)
    ELSE freq_single_tail(Column(d, col), d.dtype[col], mapping,
                          exclude_values)

\* bar_chart_vertical(tab, title): the notice "no data" for an empty table,
\* the chart otherwise.
bar_chart_vertical(tab) == IF tab.rows = <<>> THEN "info" ELSE "chart"

(***************************************************************************)
(* Text case conversion, over the vocabulary of the model (digits and      *)
(* punctuation have no case).                                              *)
(***************************************************************************)
str_upper(t) ==
    CASE t \in {"yes", "Yes", "YES"} -> "YES"
      [] t \in {"no", "No", "NO"} -> "NO"
      [] t \in {"nan", "NaN", "NAN"} -> "NAN"
      [] t \in {"none", "None", "NONE"} -> "NONE"
      [] t \in {"true", "True", "TRUE"} -> "TRUE"
      [] t \in {"checked", "Checked", "CHECKED"} -> "CHECKED"
      [] t \in {"other", "Other", "OTHER"} -> "OTHER"
      [] t \in {"unknown", "Unknown", "UNKNOWN"} -> "UNKNOWN"
      [] t \in {"a", "A"} -> "A"
      [] t \in {"b", "B"} -> "B"
      [] t \in {"x", "X"} -> "X"
      [] t \in {"y", "Y"} -> "Y"
      [] OTHER -> t

str_lower(t) ==
    CASE t \in {"yes", "Yes", "YES"} -> "yes"
      [] t \in {"no", "No", "NO"} -> "no"
      [] t \in {"nan", "NaN", "NAN"} -> "nan"
      [] t \in {"none", "None", "NONE"} -> "none"
      [] t \in {"true", "True", "TRUE"} -> "true"
      [] t \in {"checked", "Checked", "CHECKED"} -> "checked"
      [] t \in {"other", "Other", "OTHER"} -> "other"
      [] t \in {"unknown", "Unknown", "UNKNOWN"} -> "unknown"
      [] t \in {"a", "A"} -> "a"
      [] t \in {"b", "B"} -> "b"
      [] t \in {"x", "X"} -> "x"
      [] t \in {"y", "Y"} -> "y"
      [] OTHER -> t

(***************************************************************************)
(* A Python dict of counts, kept as the sequence of its items in insertion *)
(* order: assigning to a key already present overwrites its value in       *)
(* place.                                                                  *)
(***************************************************************************)
dict_set(items, key, val) ==
    IF \E i \in DOMAIN items : items[i].answer = key
    THEN [i \in DOMAIN items |->
            IF items[i].answer = key
            THEN [answer |-> key, count |-> val] ELSE items[i]]
    ELSE Append(items, [answer |-> key, count |-> val])

\* counts[label] = cnt for every pair with cnt > 0, in order.
RECURSIVE assign_positive(_)
assign_positive(pairs) ==
    IF pairs = <<>> THEN <<>>
    ELSE LET before == assign_positive(SubSeq(pairs, 1, Len(pairs) - 1))
             last == pairs[Len(pairs)]
         IN IF last.count > 0 THEN dict_set(before, last.answer, last.count)
            ELSE before

(***************************************************************************)
(* freq_multi.                                                             *)
(***************************************************************************)
\* labels.get(c, c): the label of a field, the field name when it has none.
\* A label is a cell: a text, or NA for the label None.
label_get(labels, c) == IF c \in DOMAIN labels THEN labels[c] ELSE Str(c)

\* df[c].astype(str).str.upper().eq("YES").sum()
yes_count(d, c) ==
    LET series == Column(d, c)
    IN Cardinality({i \in DOMAIN series :
           str_upper(astype_str(series[i], d.dtype[c])) = "YES"})

Section4Tokens == {"1", "1.0", "Yes", "True", "checked"}

\* df[c].dropna().astype(str).isin(["1", "1.0", "Yes", "True", "checked"]).sum()
checked_count(d, c) ==
    LET series == Column(d, c)
    IN Cardinality({i \in DOMAIN series :
           /\ ~isna(series[i])
           /\ astype_str(series[i], d.dtype[c]) \in Section4Tokens})

\* app.py and section2.py (identical bodies): percent of all mentions.
freq_multi_app(d, cols, labels) ==
    LET present_cols == SelectSeq(cols, LAMBDA c : c \in d.columns)
        counts == assign_positive(
                     [i \in 1..Len(present_cols) |->
                        [answer |-> label_get(labels, present_cols[i]),
                         count |-> yes_count(d, present_cols[i])]])
    IN IF present_cols = <<>> \/ counts = <<>> THEN EmptyTable(FreqColumns)
       ELSE [columns |-> FreqColumns,
             rows |-> sort_values_desc(
                         with_percent(counts, counts_sum(counts)), "percent")]

\* section4.py: its own token list, percent of the filtered respondents.
freq_multi_section4(d, cols, labels) ==
    LET present_cols == SelectSeq(cols, LAMBDA c : c \in d.columns)
        counts == assign_positive(
                     [i \in 1..Len(present_cols) |->
                        [answer |-> label_get(labels, present_cols[i]),
                         count |-> checked_count(d, present_cols[i])]])
        total_respondents == Len(d.rows)
        tab == IF total_respondents > 0
               THEN with_percent(counts, total_respondents)
               ELSE [i \in 1..Len(counts) |->
                       [answer |-> counts[i].answer,
                        count |-> counts[i].count, percent |-> 0]]
    IN IF present_cols = <<>> \/ counts = <<>> THEN EmptyTable(FreqColumns)
       ELSE [columns |-> FreqColumns,
             rows |-> sort_values_desc(tab, "percent")]

(***************************************************************************)
(* section4.py: process_open_ended_comments.  The result is the pair       *)
(* [segments, mentions]; pd.DataFrame() is the table without columns.      *)
(***************************************************************************)
\* str.strip() over the texts of the model.
str_strip(t) ==
    CASE t \in {"a ", " a"} -> "a"
      [] t \in {"A ", " A"} -> "A"
      [] t = " " -> ""
      [] OTHER -> t

\* The lower-cased mention texts of the model in the order groupby sorts
\* its keys.
SortedKeys == <<"a", "b">>

ShapelessTable == EmptyTable(<<>>)

SegmentColumns == <<"mentions_count", "num_users", "percent">>

MentionColumns == <<"Mentioned", "Count">>

\* The replace list of the per-row count and the list of the mention loop.
SegmentPlaceholders == {"nan", "None", "0", ""}

MentionPlaceholders == {"nan", "", "0", "none"}

comment_col(prefix, i) == prefix \o "_" \o ToString(i) \o "comment"

valid_comment_cols(d, prefix, max_slots) ==
    SelectSeq([i \in 1..max_slots |-> comment_col(prefix, i)],
              LAMBDA c : c \in d.columns)

\* x.astype(str).str.strip().replace([...], pd.NA).count() of every row.
counts_per_user(d, cols) ==
    [i \in 1..Len(d.rows) |->
        Cardinality({k \in DOMAIN cols :
            str_strip(astype_str(d.rows[i][cols[k]], "object"))
                \notin SegmentPlaceholders})]

\* value_counts of the per-row counts, the rows of positive mentions_count
\* in ascending order, percent over len(df).
segments_table(d, counts) ==
    LET ks == {counts[i] : i \in DOMAIN counts} \ {0}
        kth(j) == CHOOSE k \in ks : Cardinality({x \in ks : x <= k}) = j
    IN [columns |-> SegmentColumns,
        rows |-> [j \in 1..Cardinality(ks) |->
                    LET users == Cardinality({i \in DOMAIN counts :
                                                 counts[i] = kth(j)})
                    IN [mentions_count |-> kth(j), num_users |-> users,
                        percent |-> round1(users, Len(d.rows))]]]

\* The stripped texts of one column that are no placeholder, in row order.
column_mentions(d, c) ==
    LET vals == SelectSeq(Column(d, c), LAMBDA x : ~isna(x))
        clean == [i \in DOMAIN vals |->
                    str_strip(astype_str(vals[i], d.dtype[c]))]
    IN SelectSeq(clean, LAMBDA v : str_lower(v) \notin MentionPlaceholders)

\* all_mentions: column after column.
RECURSIVE collect_mentions(_, _)
collect_mentions(d, cols) ==
    IF cols = <<>> THEN <<>>
    ELSE collect_mentions(d, SubSeq(cols, 1, Len(cols) - 1))
            \o column_mentions(d, cols[Len(cols)])

\* groupby("normalized").agg(count, first), sorted by count descending.
grouped_last(all_mentions) ==
    LET keys == SelectSeq(SortedKeys, LAMBDA k :
                    \E i \in DOMAIN all_mentions :
                        str_lower(all_mentions[i]) = k)
        members(k) == SelectSeq(all_mentions, LAMBDA v : str_lower(v) = k)
        rows == [j \in DOMAIN keys |->
                   [Mentioned |-> members(keys[j])[Len(members(keys[j]))],
                    Count |-> Len(members(keys[j]))]]
    IN sort_values_desc(rows, "Count")

grouped(all_mentions) ==
    LET keys == SelectSeq(SortedKeys, LAMBDA k :
                    \E i \in DOMAIN all_mentions :
                        str_lower(all_mentions[i]) = k)
        members(k) == SelectSeq(all_mentions, LAMBDA v : str_lower(v) = k)
        rows == [j \in DOMAIN keys |->
                   [Mentioned |-> Head(members(keys[j])),
                    Count |-> Len(members(keys[j]))]]
    IN sort_values_desc(rows, "Count")

process_open_ended_comments(d, prefix, max_slots) ==
    LET cols == valid_comment_cols(d, prefix, max_slots)
        segments == segments_table(d, counts_per_user(d, cols))
        all_mentions == collect_mentions(d, cols)
    IN IF cols = <<>>
       THEN [segments |-> ShapelessTable, mentions |-> ShapelessTable]
       ELSE IF all_mentions = <<>>
       THEN [segments |-> segments, mentions |-> ShapelessTable]
       ELSE [segments |-> segments,
             mentions |-> [columns |-> MentionColumns,
                           rows |-> grouped(all_mentions)]]

(***************************************************************************)
(* section3.py: numbered columns, YES indicators by code, combination.     *)
(***************************************************************************)
\* f"{col_prefix}{i}"
col_name(prefix, i) == prefix \o ToString(i)

\* str.rstrip('_') on the prefixes of the model.
rstrip_underscore(prefix) ==
    CASE prefix = "O_" -> "O"
      [] prefix = "Pr_" -> "Pr"
      [] prefix = "R_" -> "R"
      [] OTHER -> prefix

\* The non-missing, non-excluded values of slot column i, in row order
\* (nothing when the column is absent).  "if exclude_values:" is false for
\* None and for the empty set.
slot_values(d, col_prefix, i, exclude_values) ==
    IF col_name(col_prefix, i) \notin d.columns THEN <<>>
    ELSE SelectSeq(Column(d, col_name(col_prefix, i)),
            LAMBDA c : ~isna(c) /\ ~isin(c, exclude_values.v))

\* counts[label] = counts.get(label, 0) + 1 for every known value, in order.
RECURSIVE count_labels_stringify(_, _)
count_labels_stringify(values, mapping) ==
    IF values = <<>> THEN <<>>
    ELSE LET before == count_labels_stringify(
                           SubSeq(values, 1, Len(values) - 1), mapping)
             val == values[Len(values)]
             label == IF val.k = "num" /\ val.n \in DOMAIN mapping
                      THEN Str(mapping[val.n])
                      ELSE Str(astype_str(val, "int64"))
             old == {r \in Range(before) : r.answer = label}
         IN dict_set(before, label,
               IF old = {} THEN 1 ELSE (CHOOSE r \in old : TRUE).count + 1)

RECURSIVE count_labels(_, _)
count_labels(values, mapping) ==
    IF values = <<>> THEN <<>>
    ELSE LET before == count_labels(SubSeq(values, 1, Len(values) - 1),
                                    mapping)
             val == values[Len(values)]
         IN IF val.k = "num" /\ val.n \in DOMAIN mapping
            THEN LET label == Str(mapping[val.n])
                     old == {r \in Range(before) : r.answer = label}
                 IN dict_set(before, label,
                       IF old = {} THEN 1
                       ELSE (CHOOSE r \in old : TRUE).count + 1)
            ELSE before

\* The values of slots 1..max_num, slot by slot.
RECURSIVE all_slot_values(_, _, _, _)
all_slot_values(d, col_prefix, max_num, exclude_values) ==
    IF max_num = 0 THEN <<>>
    ELSE all_slot_values(d, col_prefix, max_num - 1, exclude_values)
            \o slot_values(d, col_prefix, max_num, exclude_values)

freq_multi_numbered_population(d, col_prefix, max_num, mapping, exclude_values) ==
    LET counts == count_labels(
                     all_slot_values(d, col_prefix, max_num, exclude_values),
                     mapping)
    IN IF counts = <<>> THEN EmptyTable(FreqColumns)
       ELSE [columns |-> FreqColumns,
             rows |-> sort_values_desc(
                         with_percent(counts, Len(d.rows)), "percent")]

freq_multi_numbered(d, col_prefix, max_num, mapping, exclude_values) ==
    LET counts == count_labels(
                     all_slot_values(d, col_prefix, max_num, exclude_values),
                     mapping)
    IN IF counts = <<>> THEN EmptyTable(FreqColumns)
       ELSE [columns |-> FreqColumns,
             rows |-> sort_values_desc(
                         with_percent(counts, counts_sum(counts)), "percent")]

\* The YES count of a column, 0 when the dataframe lacks it.
yes_count_if_present(d, c) == IF c \in d.columns THEN yes_count(d, c) ELSE 0

\* The (label, count) pairs of the option codes 1..max_num that are in the
\* mapping; a code outside the mapping contributes a pair of count 0.
code_pairs(d, col_prefix, max_num, mapping) ==
    [i \in 1..max_num |->
        IF i \in DOMAIN mapping
        THEN [answer |-> Str(mapping[i]),
              count |-> yes_count_if_present(d, col_name(col_prefix, i))]
        ELSE [answer |-> NA, count |-> 0]]

\* The same for the special suffix codes, in the order given.
suffix_pairs(d, stem, suffixes, mapping) ==
    [k \in 1..Len(suffixes) |->
        IF suffixes[k] \in DOMAIN mapping
        THEN [answer |-> Str(mapping[suffixes[k]]),
              count |-> yes_count_if_present(
                            d, stem \o "_" \o ToString(suffixes[k]))]
        ELSE [answer |-> NA, count |-> 0]]

freq_multi_yes(d, col_prefix, max_num, mapping) ==
    LET counts == assign_positive(
                     code_pairs(d, col_prefix, max_num, mapping)
                     \o suffix_pairs(d, rstrip_underscore(col_prefix),
                                     <<98, 999>>, mapping))
    IN IF counts = <<>> THEN EmptyTable(FreqColumns)
       ELSE [columns |-> FreqColumns,
             rows |-> sort_values_desc(
                         with_percent(counts, counts_sum(counts)), "percent")]

(***************************************************************************)
(* combine_tom_other_promp.  all_channels is a dict channel -> counts,     *)
(* kept as the sequence of its items in insertion order.                   *)
(***************************************************************************)
CombinedColumns == <<"channel", "TOM", "Other", "Prompted", "Total">>

TomSkipped == {"other", "nan", "none"}

\* all_channels[channel][field] = count, creating the entry when needed.
channel_set(items, channel, field, count) ==
    LET fresh == [channel |-> channel, TOM |-> 0, Other |-> 0, Prompted |-> 0]
        base == IF \E i \in DOMAIN items : items[i].channel = channel
                THEN items ELSE Append(items, fresh)
    IN [i \in DOMAIN base |->
          IF base[i].channel = channel
          THEN [base[i] EXCEPT ![field] = count] ELSE base[i]]

\* The same without the test yes_count > 0: every pair gets its entry.
RECURSIVE channel_assign_any_count(_, _, _)
channel_assign_any_count(items, pairs, field) ==
    IF pairs = <<>> THEN items
    ELSE LET last == pairs[Len(pairs)]
         IN IF isna(last.answer)
            THEN channel_assign_any_count(items,
                     SubSeq(pairs, 1, Len(pairs) - 1), field)
            ELSE channel_set(
                     channel_assign_any_count(items,
                         SubSeq(pairs, 1, Len(pairs) - 1), field),
                     last.answer, field, last.count)

\* Apply, in order, every pair of positive count to the field of its channel.
RECURSIVE channel_assign(_, _, _)
channel_assign(items, pairs, field) ==
    IF pairs = <<>> THEN items
    ELSE LET before == channel_assign(items,
                           SubSeq(pairs, 1, Len(pairs) - 1), field)
             last == pairs[Len(pairs)]
         IN IF last.count > 0
            THEN channel_set(before, last.answer, field, last.count)
            ELSE before

\* Step 1: the top-of-mind names and their counts.
tom_pairs(d, tom_col, mapping, exclude_values) ==
    IF tom_col \notin d.columns THEN <<>>
    ELSE LET exclude_names ==
                 {Str(mapping[v]) : v \in exclude_values.v \cap DOMAIN mapping}
             tom_series == SelectSeq(Column(d, tom_col),
                              LAMBDA c : ~isna(c) /\ c \notin exclude_names)
             tom_counts == value_counts(tom_series)
         IN SelectSeq(tom_counts,
               LAMBDA r : str_lower(astype_str(r.answer, d.dtype[tom_col]))
                             \notin TomSkipped)

\* Steps 1 to 3 and the suffix columns: the dict all_channels.
combine_counts(d, tom_col, other_prefix, promp_prefix, max_num, mapping, exclude_values) ==
    LET kept_suffixes == SelectSeq(<<98, 999>>,
                            LAMBDA x : x \notin exclude_values.v)
        c1 == channel_assign(<<>>,
                 tom_pairs(d, tom_col, mapping, exclude_values), "TOM")
        c2 == channel_assign(c1,
                 code_pairs(d, other_prefix, max_num, mapping), "Other")
        c3 == channel_assign(c2,
                 code_pairs(d, promp_prefix, max_num, mapping), "Prompted")
    IN channel_assign(c3,
          suffix_pairs(d, rstrip_underscore(promp_prefix),
                       kept_suffixes, mapping), "Prompted")

combine_row_sum_of_rounded(counts, total_respondents) ==
    [channel |-> counts.channel,
     TOM |-> py_round1(counts.TOM, total_respondents),
     Other |-> py_round1(counts.Other, total_respondents),
     Prompted |-> py_round1(counts.Prompted, total_respondents),
     Total |-> py_round1(counts.TOM, total_respondents)
               + py_round1(counts.Other, total_respondents)
               + py_round1(counts.Prompted, total_respondents)]

combine_row_without_prompted(counts, total_respondents) ==
    [channel |-> counts.channel,
     TOM |-> py_round1(counts.TOM, total_respondents),
     Other |-> py_round1(counts.Other, total_respondents),
     Prompted |-> py_round1(counts.Prompted, total_respondents),
     Total |-> py_round1(counts.TOM + counts.Other, total_respondents)]

\* One entry of data: the three percentages and Total, each rounded on its
\* own from the counts.
combine_row(counts, total_respondents) ==
    [channel |-> counts.channel,
     TOM |-> py_round1(counts.TOM, total_respondents),
     Other |-> py_round1(counts.Other, total_respondents),
     Prompted |-> py_round1(counts.Prompted, total_respondents),
     Total |-> py_round1(counts.TOM + counts.Other + counts.Prompted,
                         total_respondents)]

\* counts[..] / total_respondents with total_respondents = 0: the call
\* raises and returns no table.
ZeroDivisionError ==
    [columns |-> <<>>, rows |-> <<>>, raised |-> "ZeroDivisionError"]

combine_over_answered(d, tom_col, other_prefix, promp_prefix, max_num, mapping, exclude_values) ==
    LET total_respondents ==
            Cardinality({i \in DOMAIN d.rows : ~isna(d.rows[i][tom_col])})
        all_channels == combine_counts(d, tom_col, other_prefix, promp_prefix,
                                       max_num, mapping, exclude_values)
        data == [i \in 1..Len(all_channels) |->
                   combine_row(all_channels[i], total_respondents)]
    IN IF all_channels = <<>> \/ total_respondents = 0
       THEN EmptyTable(CombinedColumns)
       ELSE [columns |-> CombinedColumns,
             rows |-> sort_values_desc(data, "Total")]

combine_tom_other_promp(d, tom_col, other_prefix, promp_prefix, max_num, mapping, exclude_values) ==
    LET total_respondents == Len(d.rows)
        all_channels == combine_counts(d, tom_col, other_prefix, promp_prefix,
                                       max_num, mapping, exclude_values)
        data == [i \in 1..Len(all_channels) |->
                   combine_row(all_channels[i], total_respondents)]
    IN IF all_channels = <<>> THEN EmptyTable(CombinedColumns)
       ELSE IF total_respondents = 0 THEN ZeroDivisionError
       ELSE [columns |-> CombinedColumns,
             rows |-> sort_values_desc(data, "Total")]

(***************************************************************************)
(* filters.py: render_filters.  Every multiselect returns a list of its    *)
(* options; args.sel maps each widget to the set of selected options.      *)
(***************************************************************************)
\* The "all" sentinel option of every widget.
ALL == Str("All")

\* The widgets in the order render_filters applies them.
FilterWidgets == <<"sex", "age", "city", "s4", "s5", "dev", "d1", "d4", "d6">>

FieldOf ==
    ("sex" :> "S2" @@ "age" :> "AGE_GRP" @@ "city" :> "S3" @@ "s4" :> "S4"
        @@ "s5" :> "S5" @@ "dev" :> "Dev_lbl" @@ "d1" :> "D1" @@ "d4" :> "D4"
        @@ "d6" :> "D6")

\* The widgets whose options are labels of a code mapping.
LabelWidgets == {"d1", "d4", "d6"}

\* mappings.py (not part of the sources at hand): one label per code.
D1_MARITAL_STATUS_MAP == (1 :> "Married" @@ 2 :> "Single" @@ 99 :> "Refused")
D4_EMPLOYMENT_STATUS_MAP == (1 :> "Employed" @@ 2 :> "Unemployed" @@ 99 :> "Refused")
D6_INCOME_MAP == (1 :> "Low" @@ 2 :> "High" @@ 99 :> "Refused")

MapOf(w) ==
    CASE w = "d1" -> D1_MARITAL_STATUS_MAP
      [] w = "d4" -> D4_EMPLOYMENT_STATUS_MAP
      [] w = "d6" -> D6_INCOME_MAP

\* series.dropna().unique() of a field over rows.
unique_values(rows, field) ==
    {rows[i][field] : i \in {j \in DOMAIN rows : ~isna(rows[j][field])}}

\* MAP.get(x, str(x))
map_get(mapping, x, dtype) ==
    IF x.k = "num" /\ x.n \in DOMAIN mapping THEN Str(mapping[x.n])
    ELSE Str(astype_str(x, dtype))

\* d1_unique: the values of the whole dataframe except the code 99.
d_unique(d, w) == unique_values(d.rows, FieldOf[w]) \ {Num(99)}

\* The options, had the region widget listed the code 0 as well.
options_with_zero(d, filt_rows, w) ==
    IF w \in LabelWidgets
    THEN {map_get(MapOf(w), x, d.dtype[FieldOf[w]]) : x \in d_unique(d, w)}
    ELSE IF w = "s4" THEN unique_values(filt_rows, "S4")
    ELSE unique_values(d.rows, FieldOf[w])

\* The options a widget offers besides the sentinel; filt_rows is filt_df
\* at the moment the widget is built (only the region widget reads it, and
\* it hides the code 0).
options(d, filt_rows, w) ==
    IF w \in LabelWidgets
    THEN {map_get(MapOf(w), x, d.dtype[FieldOf[w]]) : x \in d_unique(d, w)}
    ELSE IF w = "s4" THEN unique_values(filt_rows, "S4") \ {Num(0)}
    ELSE unique_values(d.rows, FieldOf[w])

\* The raw values a selection stands for: the selection itself, or for a
\* label widget the codes whose label is selected plus the unmapped values
\* whose text is selected.
selected_ids(d, w, sel) ==
    IF w \in LabelWidgets
    THEN {Num(k) : k \in {j \in DOMAIN MapOf(w) : Str(MapOf(w)[j]) \in sel}}
            \cup {x \in d_unique(d, w) :
                    Str(astype_str(x, d.dtype[FieldOf[w]])) \in sel}
    ELSE sel

\* if "All" not in sel and sel: filt_df = filt_df[filt_df[field].isin(..)]
apply_predicate_from_df(d, filt_rows, w, sel) ==
    IF FieldOf[w] \notin d.columns \/ ALL \in sel \/ sel = {} THEN filt_rows
    ELSE SelectSeq(d.rows,
            LAMBDA r : r[FieldOf[w]] \in selected_ids(d, w, sel))

apply_predicate_empty_active(d, filt_rows, w, sel) ==
    IF FieldOf[w] \notin d.columns \/ ALL \in sel THEN filt_rows
    ELSE SelectSeq(filt_rows,
            LAMBDA r : r[FieldOf[w]] \in selected_ids(d, w, sel))

apply_predicate(d, filt_rows, w, sel) ==
    IF FieldOf[w] \notin d.columns \/ ALL \in sel \/ sel = {} THEN filt_rows
    ELSE SelectSeq(filt_rows,
            LAMBDA r : r[FieldOf[w]] \in selected_ids(d, w, sel))

\* filt_df after the first k widgets.
RECURSIVE filt_after(_, _, _)
filt_after(d, sel, k) ==
    IF k = 0 THEN d.rows
    ELSE apply_predicate(d, filt_after(d, sel, k - 1), FilterWidgets[k],
                         sel[FilterWidgets[k]])

render_filters(d, sel) ==
    [columns |-> d.columns, dtype |-> d.dtype,
     rows |-> filt_after(d, sel, Len(FilterWidgets))]

(***************************************************************************)
(* Specification SpecSingle: the three variants of freq_single applied to  *)
(* every input of a bounded family.                                        *)
(***************************************************************************)
SingleCells == {NA, Num(0), Num(1), Num(2), Num(7), Str("Ucom")}

\* Section 8 scenario: SEX = [1,1,2,2,2,NA,NA,1,2,1].
ScenarioSEX ==
    <<Num(1), Num(1), Num(2), Num(2), Num(2), NA, NA, Num(1), Num(2), Num(1)>>

SexMap == (1 :> "Male" @@ 2 :> "Female")

\* A mapping whose label for code 1 is the text of the unmapped code 7.
MixMap == (1 :> "7" @@ 2 :> "Female")

\* Long columns: a ones, b twos, optionally a technical 0 and a missing.
BlockColumns ==
    {Rep(Num(1), a) \o Rep(Num(2), b) \o t :
        a \in 0..MaxBlock, b \in 0..MaxBlock, t \in {<<>>, <<Num(0), NA>>}}

\* A full-size sample: MaxLong answered records, a ones and the rest twos.
LongColumns ==
    {Rep(Num(1), a) \o Rep(Num(2), MaxLong - a) : a \in 0..MaxLong}

SingleColumns ==
    UNION {[1..n -> SingleCells] : n \in 0..MaxRows}
        \cup BlockColumns \cup LongColumns \cup {ScenarioSEX}

\* The dtypes pandas can give a column with these cells.
DtypesOf(series) ==
    IF \E i \in DOMAIN series : series[i].k = "str" THEN {"object"}
    ELSE IF \E i \in DOMAIN series : isna(series[i]) THEN {"float64"}
    ELSE {"int64", "float64"}

\* A dataframe with the single column col.
OneColumnDf(col, series, dtype) ==
    [columns |-> {col},
     dtype |-> (col :> dtype),
     rows |-> [i \in 1..Len(series) |-> (col :> series[i])]]

\* A dataframe of n rows that lacks every column.
NoColumnDf(n) == [columns |-> {}, dtype |-> <<>>, rows |-> Rep(<<>>, n)]

SingleArgs ==
    [col : {"Q"},
     mapping : {NoneMap, SomeMap(SexMap), SomeMap(MixMap)},
     exclude_values : {NoneSet, SomeSet({}), SomeSet({0}), SomeSet({0, 2})},
     include_null : BOOLEAN]

NoOut == EmptyTable(<<>>)

InitSingle ==
    /\ pc = "idle"
    /\ out = NoOut
    /\ args \in SingleArgs
    /\ \/ \E s \in SingleColumns : \E t \in DtypesOf(s) :
             df = OneColumnDf("Q", s, t)
       \/ \E n \in 0..MaxRows : df = NoColumnDf(n)

FreqSingleApp ==
    /\ pc = "idle"
    /\ out' = freq_single_app(df, args.col, args.mapping,
                              args.exclude_values, args.include_null)
    /\ pc' = "freq_single_app"
    /\ UNCHANGED <<df, args>>

FreqSingleSection3 ==
    /\ pc = "idle"
    /\ ~args.include_null
    /\ out' = freq_single_section3(df, args.col, args.mapping,
                                   args.exclude_values)
    /\ pc' = "freq_single_section3"
    /\ UNCHANGED <<df, args>>

FreqSingleSection4 ==
    /\ pc = "idle"
    /\ ~args.include_null
    /\ out' = freq_single_section4(df, args.col, args.mapping,
                                   args.exclude_values)
    /\ pc' = "freq_single_section4"
    /\ UNCHANGED <<df, args>>

NextSingle == FreqSingleApp \/ FreqSingleSection3 \/ FreqSingleSection4

SpecSingle == InitSingle /\ [][NextSingle]_vars

(***************************************************************************)
(* Properties of freq_single (checked under SpecSingle).                   *)
(***************************************************************************)
SinglePcs ==
    {"freq_single_app", "freq_single_section3", "freq_single_section4"}

\* The column the call names, empty when the dataframe lacks it.
CalledSeries ==
    IF args.col \in df.columns THEN Column(df, args.col) ELSE <<>>

Excluded(c) == ~args.exclude_values.none /\ isin(c, args.exclude_values.v)

\* Missing values are kept only by the variant that has include_null.
MissingKept == pc = "freq_single_app" /\ args.include_null

\* Positions of the records that belong to the eligible population.
EligibleIdx ==
    {i \in DOMAIN CalledSeries :
        /\ ~Excluded(CalledSeries[i])
        /\ (~isna(CalledSeries[i]) \/ MissingKept)}

MissingIdx == {i \in DOMAIN CalledSeries : isna(CalledSeries[i])}

\* The answer a record is expected to be reported under.
ExpectedAnswer(i) ==
    LET c == IF isna(CalledSeries[i]) THEN NoData ELSE CalledSeries[i]
    IN IF args.mapping.none THEN c
       ELSE IF c.k = "num" /\ c.n \in DOMAIN args.mapping.m
            THEN Str(args.mapping.m[c.n])
            ELSE Str(astype_str(c, df.dtype[args.col]))

OutRows == Range(out.rows)

\* C1: in every variant of freq_single the rows partition the eligible
\* population: every count is positive and the counts add up to the number
\* of records that are not excluded and not missing (missing records count
\* only under include_null).
C1_RowsPartitionEligible ==
    pc \in SinglePcs =>
        /\ \A r \in OutRows : r.count > 0
        /\ counts_sum(out.rows) = Cardinality(EligibleIdx)

\* C2: without include_null a missing value is in no row and not in the
\* denominator; with include_null all missing values form one "no data"
\* row and count toward the denominator; the SEX scenario of section 8
\* gives Female 4 / 50.0 and Male 4 / 50.0.
C2_MissingHandling ==
    pc = "freq_single_app" =>
        /\ ~args.include_null =>
              /\ counts_sum(out.rows)
                    = Cardinality({i \in DOMAIN CalledSeries :
                          ~isna(CalledSeries[i]) /\ ~Excluded(CalledSeries[i])})
              /\ \A r \in OutRows : r.answer \notin {NoData, Str("nan"), NA}
        /\ (args.include_null /\ MissingIdx # {}) =>
              /\ \E r \in OutRows :
                    r.answer = NoData /\ r.count = Cardinality(MissingIdx)
              /\ counts_sum(out.rows)
                    = Cardinality(MissingIdx)
                      + Cardinality({i \in DOMAIN CalledSeries :
                          ~isna(CalledSeries[i]) /\ ~Excluded(CalledSeries[i])})
        /\ (/\ CalledSeries = ScenarioSEX
            /\ args.mapping = SomeMap(SexMap)
            /\ args.exclude_values = SomeSet({})
            /\ ~args.include_null) =>
              /\ Len(out.rows) = 2
              /\ OutRows = {[answer |-> Str("Female"), count |-> 4, percent |-> 500],
                            [answer |-> Str("Male"), count |-> 4, percent |-> 500]}

C2_Witness ==
    /\ pc = "freq_single_app"
    /\ CalledSeries = ScenarioSEX
    /\ args.mapping = SomeMap(SexMap)
    /\ args.exclude_values = SomeSet({})
    /\ ~args.include_null
    /\ Len(out.rows) = 2

\* The distance of p tenths from the exact value 1000 * count / den, times
\* 2 * den.
TwiceError(p, count, den) ==
    IF p * den >= 1000 * count THEN 2 * (p * den - 1000 * count)
    ELSE 2 * (1000 * count - p * den)

\* C3: every percent is 100 * count / denominator rounded to the nearest
\* tenth, an exact tie to the even tenth, over the number of records left
\* after the exclusions (and after dropping missing values unless
\* include_null); no excluded code is counted.
C3_PercentOverEligible ==
    pc \in {"freq_single_app", "freq_single_section3"} =>
        LET den == Cardinality(EligibleIdx)
        IN /\ counts_sum(out.rows) = den
           /\ \A r \in OutRows :
                /\ TwiceError(r.percent, r.count, den) <= den
                /\ TwiceError(r.percent, r.count, den) = den
                      => r.percent % 2 = 0
                /\ ~Excluded(r.answer)
                /\ r.count = Cardinality({i \in EligibleIdx :
                                            ExpectedAnswer(i) = r.answer})

\* C4: with a mapping every eligible record is counted under mapping[code]
\* when the code is mapped and under the string form of the code otherwise;
\* no eligible record is dropped.
C4_LabelTotal ==
    (pc = "freq_single_app" /\ ~args.mapping.none) =>
        \A i \in EligibleIdx :
            \E r \in OutRows :
                /\ r.answer = ExpectedAnswer(i)
                /\ r.count = Cardinality({j \in EligibleIdx :
                                 ExpectedAnswer(j) = ExpectedAnswer(i)})

C4_Witness ==
    /\ pc = "freq_single_app"
    /\ ~args.mapping.none
    /\ \E i, j \in EligibleIdx :
          /\ CalledSeries[i].k = "num"
          /\ CalledSeries[i].n \notin DOMAIN args.mapping.m
          /\ CalledSeries[j].k = "num"
          /\ CalledSeries[j].n \in DOMAIN args.mapping.m
    /\ Len(out.rows) >= 2

\* What the caller of freq_single gets to see: the table and what the
\* chart function shows for it.
Outcome(tab) == [table |-> tab, shown |-> bar_chart_vertical(tab)]

\* C18: the outcome for a column that exists but has no eligible record
\* differs from the outcome for a column missing from the dataset.
C18_EmptyDistinctFromMissing ==
    (pc = "freq_single_app" /\ args.col \in df.columns /\ EligibleIdx = {}) =>
        Outcome(out)
            # Outcome(freq_single_app(NoColumnDf(Len(df.rows)), args.col,
                         args.mapping, args.exclude_values, args.include_null))

(***************************************************************************)
(* Specification SpecMulti: the two variants of freq_multi applied to      *)
(* every input of a bounded family.                                        *)
(***************************************************************************)
MaxMultiRows == 2

IndicatorCells ==
    {NA, Str("Yes"), Str("YES"), Str("yes"), Str("No"), Num(1)}

\* The dtype pandas gives a column holding these cells.
DtypeOf(series) ==
    IF \E i \in DOMAIN series : series[i].k = "str" THEN "object"
    ELSE IF \E i \in DOMAIN series : isna(series[i]) THEN "float64"
    ELSE "int64"

\* A dataframe over the columns cs from its rows.
DfOfRows(cs, rows) ==
    [columns |-> cs,
     dtype |-> [c \in cs |-> DtypeOf([i \in 1..Len(rows) |-> rows[i][c]])],
     rows |-> rows]

MultiFields == {"F1", "F2"}

MultiDfs ==
    {DfOfRows(MultiFields, rows) :
        rows \in UNION {[1..n -> [MultiFields -> IndicatorCells]] :
                           n \in 0..MaxMultiRows}}
        \cup {NoColumnDf(n) : n \in 0..MaxMultiRows}

\* label_by_field: distinct labels, one shared label, a field without
\* label, and the label None for both fields.
MultiLabels ==
    {("F1" :> Str("A") @@ "F2" :> Str("B")),
     ("F1" :> Str("A") @@ "F2" :> Str("A")),
     ("F1" :> Str("A")),
     ("F1" :> NA @@ "F2" :> NA)}

InitMulti ==
    /\ pc = "idle"
    /\ out = NoOut
    /\ df \in MultiDfs
    /\ args \in [cols : {<<"F1", "F2", "F3">>}, labels : MultiLabels]

FreqMultiApp ==
    /\ pc = "idle"
    /\ out' = freq_multi_app(df, args.cols, args.labels)
    /\ pc' = "freq_multi_app"
    /\ UNCHANGED <<df, args>>

FreqMultiSection4 ==
    /\ pc = "idle"
    /\ out' = freq_multi_section4(df, args.cols, args.labels)
    /\ pc' = "freq_multi_section4"
    /\ UNCHANGED <<df, args>>

NextMulti == FreqMultiApp \/ FreqMultiSection4

SpecMulti == InitMulti /\ [][NextMulti]_vars

(***************************************************************************)
(* Properties of freq_multi (checked under SpecMulti).                     *)
(***************************************************************************)
MultiPcs == {"freq_multi_app", "freq_multi_section4"}

PresentFields == {c \in Range(args.cols) : c \in df.columns}

\* The affirmative tokens of the variant that ran.
AffirmativeTokens ==
    IF pc = "freq_multi_app" THEN {"YES"} ELSE Section4Tokens

\* The records of field c whose raw value equals an affirmative token,
\* letter case ignored.
AffirmativeIdx(c) ==
    {i \in 1..Len(df.rows) :
        /\ ~isna(df.rows[i][c])
        /\ str_upper(astype_str(df.rows[i][c], df.dtype[c]))
              \in {str_upper(t) : t \in AffirmativeTokens}}

\* The records the variant that ran counts for field c.
CountedIdx(c) ==
    {i \in 1..Len(df.rows) :
        LET t == astype_str(df.rows[i][c], df.dtype[c])
        IN IF pc = "freq_multi_app" THEN str_upper(t) = "YES"
           ELSE ~isna(df.rows[i][c]) /\ t \in Section4Tokens}

LabelShared(c) ==
    \E e \in PresentFields :
        e # c /\ label_get(args.labels, e) = label_get(args.labels, c)

\* C8: in every variant a record selects an option exactly when its raw
\* value equals an affirmative token compared case-insensitively, so the
\* row of an option counts "yes", "Yes" and "YES" alike.
C8_CaseInsensitiveAffirmative ==
    pc \in MultiPcs =>
        \A c \in PresentFields :
            ~LabelShared(c) =>
                LET n == Cardinality(AffirmativeIdx(c))
                IN IF n = 0
                   THEN \A r \in OutRows :
                            r.answer # label_get(args.labels, c)
                   ELSE \E r \in OutRows :
                            /\ r.answer = label_get(args.labels, c)
                            /\ r.count = n

\* C9: every option field with at least one affirmative record has a row
\* with that number of records as count, options without affirmative
\* record have no row, rows are in non-increasing order of percent; for
\* every label_by_field, shared or missing labels included.
C9_OneRowPerSelectedOption ==
    pc \in MultiPcs =>
        LET selected == {c \in PresentFields : CountedIdx(c) # {}}
        IN /\ \A c \in selected :
                \E r \in OutRows :
                    /\ r.answer = label_get(args.labels, c)
                    /\ r.count = Cardinality(CountedIdx(c))
           /\ Len(out.rows) = Cardinality(selected)
           /\ \A i, j \in DOMAIN out.rows :
                i < j => out.rows[i].percent >= out.rows[j].percent

(***************************************************************************)
(* Specification SpecSection3: freq_multi_numbered, freq_multi_yes and     *)
(* combine_tom_other_promp, each applied to every input of a bounded       *)
(* family of its own shape (args.fn names the function called).            *)
(***************************************************************************)
\* Code 5 has no label in either mapping; PartMap also lacks 2 and 98.
FullMap == (1 :> "X" @@ 2 :> "Y" @@ 98 :> "DK")
PartMap == (1 :> "X")
SameMap == (1 :> "X" @@ 2 :> "X")

\* A mapping that labels the code 2 with a placeholder word.
OtherMap == (1 :> "X" @@ 2 :> "Other" @@ 98 :> "DK")

AllRowSeqs(cs, cells) ==
    UNION {[1..n -> [cs -> cells]] : n \in 0..MaxMultiRows}

\* Numbered slots P1, P2 (P3 is asked for but absent).
SlotCells == {NA, Num(1), Num(2), Num(5)}

\* Section 8 scenario: slots [1,2,NA] and [2,NA,NA].
ScenarioSlots ==
    DfOfRows({"P1", "P2", "P3"},
        <<("P1" :> Num(1) @@ "P2" :> Num(2) @@ "P3" :> NA),
          ("P1" :> Num(2) @@ "P2" :> NA @@ "P3" :> NA)>>)

NumberedDfs ==
    {DfOfRows({"P1", "P2"}, rows) : rows \in AllRowSeqs({"P1", "P2"}, SlotCells)}
        \cup {ScenarioSlots}

NumberedArgs ==
    [fn : {"freq_multi_numbered"}, col_prefix : {"P"}, max_num : {3},
     mapping : {FullMap, SameMap},
     exclude_values : {NoneSet, SomeSet({2})}]

\* YES indicators R_1, R_2 and the suffix column R_98.
YesCells == {NA, Str("Yes"), Str("No")}

YesFields == {"R_1", "R_2", "R_98"}

YesDfs == {DfOfRows(YesFields, rows) : rows \in AllRowSeqs(YesFields, YesCells)}

YesArgs ==
    [fn : {"freq_multi_yes"}, col_prefix : {"R_"}, max_num : {3},
     mapping : {FullMap, PartMap, SameMap}]

\* Combination: a top-of-mind text and indicators for the codes 1, 2, 98;
\* a respondent row holds at most one "Yes".
CombineYesFields == {"O_1", "O_2", "Pr_1", "Pr_2", "Pr_98"}

TomCells == {NA, Str("X"), Str("Z"), Str("Other")}

CombineRows ==
    {[c \in CombineYesFields \cup {"TOM"} |->
         IF c = "TOM" THEN t ELSE IF c = y THEN Str("Yes") ELSE NA] :
        t \in TomCells, y \in CombineYesFields \cup {"none"}}

\* Larger samples: a copies of one respondent, whose top-of-mind text may
\* also be a placeholder in another letter case, b copies of a second
\* respondent with at most one answer, and possibly one respondent without
\* any answer.
SampleTomCells == TomCells \cup {Str("Unknown"), Str("NONE"), Str("other")}

SampleRows ==
    {[c \in CombineYesFields \cup {"TOM"} |->
         IF c = "TOM" THEN t ELSE IF c = y THEN Str("Yes") ELSE NA] :
        t \in SampleTomCells, y \in CombineYesFields \cup {"none"}}

FillerRows ==
    {r \in CombineRows :
        r["TOM"] \in {NA, Str("Z")}
            /\ (r["TOM"] = NA \/ \A c \in CombineYesFields : r[c] = NA)}

NoAnswerRow == [c \in CombineYesFields \cup {"TOM"} |-> NA]

CombineSamples ==
    {Rep(r, a) \o Rep(f, b) \o Rep(NoAnswerRow, c) :
        r \in SampleRows, f \in FillerRows,
        a \in 1..MaxRows, b \in 0..MaxRows, c \in 0..1}

CombineDfs ==
    {DfOfRows(CombineYesFields \cup {"TOM"}, rows) :
        rows \in UNION {[1..n -> CombineRows] : n \in 0..MaxMultiRows}
                    \cup CombineSamples}

CombineArgs ==
    [fn : {"combine_tom_other_promp"}, tom_col : {"TOM"},
     other_prefix : {"O_"}, promp_prefix : {"Pr_"}, max_num : {2},
     mapping : {FullMap, PartMap, OtherMap},
     exclude_values : {NoneSet, SomeSet({1, 98})}]

InitSection3 ==
    /\ pc = "idle"
    /\ out = NoOut
    /\ \/ df \in NumberedDfs /\ args \in NumberedArgs
       \/ df \in YesDfs /\ args \in YesArgs
       \/ df \in CombineDfs /\ args \in CombineArgs

FreqMultiNumbered ==
    /\ pc = "idle"
    /\ args.fn = "freq_multi_numbered"
    /\ out' = freq_multi_numbered(df, args.col_prefix, args.max_num,
                                  args.mapping, args.exclude_values)
    /\ pc' = "freq_multi_numbered"
    /\ UNCHANGED <<df, args>>

FreqMultiYes ==
    /\ pc = "idle"
    /\ args.fn = "freq_multi_yes"
    /\ out' = freq_multi_yes(df, args.col_prefix, args.max_num, args.mapping)
    /\ pc' = "freq_multi_yes"
    /\ UNCHANGED <<df, args>>

CombineTomOtherPromp ==
    /\ pc = "idle"
    /\ args.fn = "combine_tom_other_promp"
    /\ out' = combine_tom_other_promp(df, args.tom_col, args.other_prefix,
                  args.promp_prefix, args.max_num, args.mapping,
                  args.exclude_values)
    /\ pc' = "combine_tom_other_promp"
    /\ UNCHANGED <<df, args>>

NextSection3 == FreqMultiNumbered \/ FreqMultiYes \/ CombineTomOtherPromp

SpecSection3 == InitSection3 /\ [][NextSection3]_vars

(***************************************************************************)
(* Properties of the section3 tabulations (checked under SpecSection3).    *)
(***************************************************************************)
MappedLabels == {Str(args.mapping[k]) : k \in DOMAIN args.mapping}

\* The (record, slot) pairs of the numbered call whose value is present and
\* not excluded.
SlotPairs ==
    {<<i, k>> \in (1..Len(df.rows)) \X (1..args.max_num) :
        /\ col_name(args.col_prefix, k) \in df.columns
        /\ ~isna(df.rows[i][col_name(args.col_prefix, k)])
        /\ ~isin(df.rows[i][col_name(args.col_prefix, k)],
                 args.exclude_values.v)}

SlotValue(p) == df.rows[p[1]][col_name(args.col_prefix, p[2])]

KnownCode(c) == c.k = "num" /\ c.n \in DOMAIN args.mapping

\* The option codes 1..max_num of an indicator prefix that some record
\* affirms.
AffirmedCodes(prefix) ==
    {i \in 1..args.max_num :
        /\ col_name(prefix, i) \in df.columns
        /\ yes_count(df, col_name(prefix, i)) > 0}

\* The indicator prefixes of the call that ran.
IndicatorPrefixes ==
    IF pc = "freq_multi_yes" THEN {args.col_prefix}
    ELSE {args.other_prefix, args.promp_prefix}

RowLabel(r) == IF pc = "combine_tom_other_promp" THEN r.channel ELSE r.answer

C10_NumberedCounts ==
    pc = "freq_multi_numbered" =>
        LET PairsOf(l) ==
                {p \in SlotPairs :
                    KnownCode(SlotValue(p))
                        /\ Str(args.mapping[SlotValue(p).n]) = l}
            den == Cardinality({p \in SlotPairs : KnownCode(SlotValue(p))})
        IN /\ \A l \in MappedLabels :
                IF PairsOf(l) = {}
                THEN \A r \in OutRows : r.answer # l
                ELSE \E r \in OutRows :
                        /\ r.answer = l
                        /\ r.count = Cardinality(PairsOf(l))
                        /\ TwiceError(r.percent, r.count, den) <= den
           /\ Len(out.rows)
                 = Cardinality({l \in MappedLabels : PairsOf(l) # {}})
           /\ (df = ScenarioSlots /\ args.mapping = FullMap
                  /\ args.exclude_values = NoneSet) =>
                 OutRows = {[answer |-> Str("X"), count |-> 1, percent |-> 333],
                            [answer |-> Str("Y"), count |-> 2, percent |-> 667]}

C10_Witness ==
    /\ pc = "freq_multi_numbered"
    /\ \E i \in 1..Len(df.rows) :
          /\ df.rows[i]["P1"] = df.rows[i]["P2"]
          /\ <<i, 1>> \in SlotPairs
          /\ KnownCode(df.rows[i]["P1"])
    /\ \E r \in OutRows : r.count >= 2
    /\ Len(out.rows) = 2

\* The entry of all_channels the combination call keeps for a channel.
ChannelCounts(l) ==
    LET all_channels == combine_counts(df, args.tom_col, args.other_prefix,
                            args.promp_prefix, args.max_num, args.mapping,
                            args.exclude_values)
    IN all_channels[CHOOSE i \in DOMAIN all_channels :
                        all_channels[i].channel = l]

\* C11: in every row of the combination table Total is the sum of the
\* three unrounded percentages, 100 * (TOM + Other + Prompted counts) / N,
\* rounded to the nearest tenth.
C11_TotalOfUnrounded ==
    pc = "combine_tom_other_promp" =>
        \A r \in OutRows :
            LET c == ChannelCounts(r.channel)
            IN TwiceError(r.Total, c.TOM + c.Other + c.Prompted, Len(df.rows))
                  <= Len(df.rows)

C11_Witness ==
    /\ pc = "combine_tom_other_promp"
    /\ \E r \in OutRows : r.TOM > 0 /\ r.Other > 0 /\ r.Prompted > 0

\* C12 as stated: in every row of the combination table Total is the sum
\* of the three displayed (already rounded) values TOM + Other + Prompted.
C12_TotalIsDisplayedSum ==
    pc = "combine_tom_other_promp" =>
        \A r \in OutRows : r.Total = r.TOM + r.Other + r.Prompted

\* C12 as amended: Total is rounded once from the summed counts, so it
\* stays within 0.2 of the sum of the three displayed values and equals it
\* when at most one of the three metrics is positive.
C12_TotalNearDisplayedSum ==
    pc = "combine_tom_other_promp" =>
        \A r \in OutRows :
            LET shown == r.TOM + r.Other + r.Prompted
            IN /\ r.Total - shown \in -2..2
               /\ Cardinality({f \in {"TOM", "Other", "Prompted"} :
                                  r[f] > 0}) <= 1
                     => r.Total = shown

C12_Witness ==
    /\ pc = "combine_tom_other_promp"
    /\ \E r \in OutRows : r.Total # r.TOM + r.Other + r.Prompted

\* The words the specification calls generic placeholders.
PlaceholderWords == {"other", "none", "unknown"}

IsPlaceholder(l) == l.k = "str" /\ str_lower(l.s) \in PlaceholderWords

\* The labels of the codes the call excludes.
ExcludedLabels ==
    {Str(args.mapping[v]) : v \in args.exclude_values.v \cap DOMAIN args.mapping}

Affirmative(c) == c.k = "str" /\ str_upper(c.s) = "YES"

\* Records naming l as their top-of-mind answer.
TomRecords(l) ==
    {i \in DOMAIN df.rows :
        args.tom_col \in df.columns /\ df.rows[i][args.tom_col] = l}

\* (record, code) pairs affirming a code of label l in the indicator
\* columns of a prefix, over the given codes.
IndicatorRecords(prefix, codes, l) ==
    {<<i, k>> \in (DOMAIN df.rows) \X (codes \cap DOMAIN args.mapping) :
        /\ Str(args.mapping[k]) = l
        /\ col_name(prefix, k) \in df.columns
        /\ Affirmative(df.rows[i][col_name(prefix, k)])}

OtherRecords(l) ==
    IndicatorRecords(args.other_prefix, 1..args.max_num, l)

PromptedRecords(l) ==
    IndicatorRecords(args.promp_prefix, (1..args.max_num) \cup {98, 999}, l)

\* The labels a combination call can meet: the top-of-mind texts and the
\* labels of the mapping.
CandidateItems ==
    {df.rows[i][args.tom_col] : i \in {j \in DOMAIN df.rows :
        args.tom_col \in df.columns /\ ~isna(df.rows[j][args.tom_col])}}
        \cup MappedLabels

RowsDescendingBy(rows, key) ==
    \A i \in 1..(Len(rows) - 1) : rows[i][key] >= rows[i + 1][key]

C14_PlaceholderNotCounted ==
    pc = "combine_tom_other_promp" =>
        /\ \A r \in OutRows : IsPlaceholder(r.channel) => r.TOM = 0
        /\ \A l \in MappedLabels \ ExcludedLabels :
              (IsPlaceholder(l)
                  /\ (OtherRecords(l) # {} \/ PromptedRecords(l) # {}))
                 => \E r \in OutRows : r.channel = l

\* C28: no row of the combination table carries the label of an excluded
\* code, whichever of the three sources the label would come from.
C28_ExcludedFromAllSources ==
    pc = "combine_tom_other_promp" =>
        \A r \in OutRows : r.channel \notin ExcludedLabels

\* The label of an excluded code gets nothing from the top-of-mind column.
C28_ExcludedFromTom ==
    pc = "combine_tom_other_promp" =>
        \A r \in OutRows : r.channel \in ExcludedLabels => r.TOM = 0

\* C29: the combination never divides by zero: on an empty population every
\* source count is zero and the empty combination table is returned before
\* any percentage is computed; a table with rows comes from a population of
\* at least one record.
C29_NoDivisionByZero ==
    pc = "combine_tom_other_promp" =>
        /\ out # ZeroDivisionError
        /\ Len(df.rows) = 0 =>
              /\ combine_counts(df, args.tom_col, args.other_prefix,
                     args.promp_prefix, args.max_num, args.mapping,
                     args.exclude_values) = <<>>
              /\ out = EmptyTable(CombinedColumns)
        /\ out.rows # <<>> => Len(df.rows) >= 1

\* The combination of an empty population that has all the columns.
C29_Witness ==
    /\ pc = "combine_tom_other_promp"
    /\ Len(df.rows) = 0
    /\ {args.tom_col, col_name(args.other_prefix, 1),
         col_name(args.promp_prefix, 1)} \subseteq df.columns
    /\ 1 \in DOMAIN args.mapping
    /\ out = EmptyTable(CombinedColumns)

(***************************************************************************)
(* Specification SpecFilters: render_filters on every dataframe and every  *)
(* selection of a bounded family, and the same predicates applied one at   *)
(* a time in an arbitrary order.                                           *)
(***************************************************************************)
FilterFields == Range(FieldOf)

\* Five respondents: missing values, the region code 0, the code 99 and an
\* unmapped code 5 all occur.
Respondents ==
    <<("S2" :> Num(1) @@ "AGE_GRP" :> Str("16-20") @@ "S3" :> Num(1)
          @@ "S4" :> Num(3) @@ "S5" :> Num(1) @@ "Dev_lbl" :> Str("Smartphone")
          @@ "D1" :> Num(1) @@ "D4" :> Num(1) @@ "D6" :> Num(1)),
      ("S2" :> Num(2) @@ "AGE_GRP" :> Str("21-29") @@ "S3" :> Num(1)
          @@ "S4" :> Num(0) @@ "S5" :> Num(2) @@ "Dev_lbl" :> Str("Smartphone")
          @@ "D1" :> Num(2) @@ "D4" :> Num(1) @@ "D6" :> Num(2)),
      ("S2" :> Num(1) @@ "AGE_GRP" :> NA @@ "S3" :> Num(2)
          @@ "S4" :> Num(4) @@ "S5" :> Num(1) @@ "Dev_lbl" :> Str("3")
          @@ "D1" :> Num(99) @@ "D4" :> Num(2) @@ "D6" :> NA),
      ("S2" :> NA @@ "AGE_GRP" :> Str("21-29") @@ "S3" :> Num(2)
          @@ "S4" :> Num(3) @@ "S5" :> NA @@ "Dev_lbl" :> Str("Smartphone")
          @@ "D1" :> Num(5) @@ "D4" :> Num(99) @@ "D6" :> Num(1)),
      ("S2" :> Num(2) @@ "AGE_GRP" :> Str("16-20") @@ "S3" :> Num(1)
          @@ "S4" :> NA @@ "S5" :> Num(2) @@ "Dev_lbl" :> Str("3")
          @@ "D1" :> Num(1) @@ "D4" :> NA @@ "D6" :> Num(2))>>

\* The respondents of index set I, in order, restricted to the columns cs.
RECURSIVE PickRows(_, _, _)
PickRows(I, cs, k) ==
    IF k = 0 THEN <<>>
    ELSE PickRows(I, cs, k - 1)
            \o (IF k \in I THEN <<[c \in cs |-> Respondents[k][c]]>> ELSE <<>>)

\* The dataframe has every filter field, or lacks some of them.
FilterColumnSets ==
    {FilterFields, FilterFields \ {"S2"}, FilterFields \ {"S4", "D1"}}

FilterDfs ==
    {DfOfRows(cs, PickRows(I, cs, Len(Respondents))) :
        cs \in FilterColumnSets, I \in SUBSET DOMAIN Respondents}

\* What a multiselect can return: the default, any set of options, or the
\* sentinel together with options.
SelChoices(opts) ==
    {{ALL}} \cup SUBSET opts \cup {{ALL} \cup S : S \in SUBSET opts}

\* Every selection lies within the options its widget offered in this run.
ValidSel(d, sel) ==
    \A k \in DOMAIN FilterWidgets :
        LET w == FilterWidgets[k]
        IN IF FieldOf[w] \notin d.columns THEN sel[w] = {ALL}
           ELSE sel[w] \subseteq
                   options(d, filt_after(d, sel, k - 1), w) \cup {ALL}

WidgetSet == Range(FilterWidgets)

\* The options of a widget before any filtering (none for an absent field).
AllOptions(d, w) ==
    IF FieldOf[w] \notin d.columns THEN {} ELSE options(d, d.rows, w)

\* filt_df = df.copy(); the selections have at most two widgets off the
\* default.
InitFilters ==
    /\ pc = "idle"
    /\ df \in FilterDfs
    /\ out = [rows |-> df.rows, applied |-> {}]
    /\ \E w1, w2 \in WidgetSet :
          \E s1 \in SelChoices(AllOptions(df, w1)),
             s2 \in SelChoices(AllOptions(df, w2)) :
              LET sel == [w \in WidgetSet |->
                            IF w = w1 THEN s1
                            ELSE IF w = w2 THEN s2 ELSE {ALL}]
              IN ValidSel(df, sel) /\ args = [sel |-> sel]

\* One run of render_filters: all predicates in the fixed order.
RenderFilters ==
    /\ pc = "idle"
    /\ out' = [rows |-> render_filters(df, args.sel).rows,
               applied |-> WidgetSet]
    /\ pc' = "render_filters"
    /\ UNCHANGED <<df, args>>

\* The predicate of one widget applied to the current filt_df, the widgets
\* taken in any order (a widget left at its default changes nothing).
ApplyPredicate(w) ==
    /\ pc \in {"idle", "applying"}
    /\ w \notin out.applied
    /\ args.sel[w] # {ALL}
    /\ out' = [rows |-> apply_predicate(df, out.rows, w, args.sel[w]),
               applied |-> out.applied \cup {w}]
    /\ pc' = "applying"
    /\ UNCHANGED <<df, args>>

NextFilters == RenderFilters \/ \E w \in WidgetSet : ApplyPredicate(w)

SpecFilters == InitFilters /\ [][NextFilters]_vars

(***************************************************************************)
(* Properties of render_filters (checked under SpecFilters).               *)
(***************************************************************************)
\* A widget whose predicate is active: its field exists, the selection is
\* not empty and does not hold the sentinel.
ActiveWidgets ==
    {w \in WidgetSet :
        /\ FieldOf[w] \in df.columns
        /\ args.sel[w] # {}
        /\ ALL \notin args.sel[w]}

\* The value v of the field of widget w lies in the selected set: it is
\* selected itself, or for a label widget its label is selected.
InSelected(w, v) ==
    /\ ~isna(v)
    /\ IF w \in LabelWidgets
       THEN map_get(MapOf(w), v, df.dtype[FieldOf[w]]) \in args.sel[w]
       ELSE v \in args.sel[w]

\* C6: render_filters returns exactly the records that, for every active
\* predicate, have a field value inside the selected set (a missing value
\* in an actively filtered field excludes the record); empty or "all"
\* selections and predicates on absent fields do not filter.
C6_ConjunctionOfActivePredicates ==
    pc = "render_filters" =>
        out.rows = SelectSeq(df.rows,
                      LAMBDA r : \A w \in ActiveWidgets :
                                    InSelected(w, r[FieldOf[w]]))

C6_Witness ==
    /\ pc = "render_filters"
    /\ Cardinality(ActiveWidgets) = 2
    /\ \E w \in WidgetSet : args.sel[w] = {}
          \/ (ALL \in args.sel[w] /\ args.sel[w] # {ALL})
          \/ FieldOf[w] \notin df.columns
    /\ \E w \in ActiveWidgets :
          \E i \in DOMAIN df.rows : isna(df.rows[i][FieldOf[w]])
    /\ out.rows # <<>>
    /\ Len(out.rows) < Len(df.rows)

\* The widgets whose selection differs from the default.
NonDefault == {w \in WidgetSet : args.sel[w] # {ALL}}

\* C7: applying the predicates in any order gives the records that the
\* fixed order of render_filters gives.
C7_OrderIndependent ==
    (pc = "applying" /\ out.applied = NonDefault) =>
        out.rows = render_filters(df, args.sel).rows

C7_Witness ==
    /\ pc = "applying"
    /\ out.applied = NonDefault
    /\ Cardinality(ActiveWidgets) = 2
    /\ out.rows # <<>>
    /\ \A w \in ActiveWidgets :
          Len(apply_predicate(df, df.rows, w, args.sel[w])) > Len(out.rows)

\* The position of the region widget among the widgets.
RegionAt == CHOOSE k \in DOMAIN FilterWidgets : FilterWidgets[k] = "s4"

\* The options the region widget offers in this run: built from filt_df as
\* the widgets before it left it.
RegionOptions ==
    options(df, filt_after(df, args.sel, RegionAt - 1), "s4")

\* C26: the region widget offers neither the technical code 0 nor a
\* missing value, so once an active region predicate is applied no record
\* with the region code 0 (or without a region) is in the filtered result.
C26_RegionZeroHidden ==
    "S4" \in df.columns =>
        /\ Num(0) \notin RegionOptions
        /\ NA \notin RegionOptions
        /\ ("s4" \in ActiveWidgets /\ "s4" \in out.applied) =>
              \A i \in DOMAIN out.rows :
                  out.rows[i]["S4"] \notin {Num(0), NA}

\* A run whose dataframe has a record of region 0 that the widgets before
\* the region widget let through, and an active region selection.
C26_Witness ==
    /\ pc = "render_filters"
    /\ "s4" \in ActiveWidgets
    /\ \E r \in Range(filt_after(df, args.sel, RegionAt - 1)) :
          r["S4"] = Num(0)
    /\ \E r \in Range(filt_after(df, args.sel, RegionAt - 1)) :
          isna(r["S4"])
    /\ RegionOptions # {}
    /\ out.rows # <<>>

(***************************************************************************)
(* Specification SpecMentions: process_open_ended_comments on every        *)
(* dataframe of a bounded family of comment slots.                         *)
(***************************************************************************)
MaxMentionRows == 2

\* Slot texts: missing, two spellings of one item, a second item, the
\* empty text, a lower-case placeholder and a text to be trimmed.
MentionCells == {NA, Str("A"), Str("a"), Str("B"), Str(""), Str("none"),
                 Str("a ")}

\* Further placeholder spellings, met in one-respondent datasets.
WideMentionCells ==
    MentionCells \cup {Str("0"), Str("None"), Str("nan"), Str("NONE"),
                       Str("NaN"), Str(" ")}

MentionFields == {"Q_1comment", "Q_2comment"}

\* Section 8 scenario: one respondent with slots ['A', '', 'a', 'B'].
ScenarioMentions ==
    DfOfRows({"Q_1comment", "Q_2comment", "Q_3comment", "Q_4comment"},
        <<("Q_1comment" :> Str("A") @@ "Q_2comment" :> Str("")
             @@ "Q_3comment" :> Str("a") @@ "Q_4comment" :> Str("B"))>>)

MentionDfs ==
    {DfOfRows(MentionFields, rows) :
        rows \in UNION {[1..n -> [MentionFields -> MentionCells]] :
                           n \in 0..MaxMentionRows}
                    \cup [1..1 -> [MentionFields -> WideMentionCells]]}
        \cup {DfOfRows({"Q_1comment"}, rows) :
                 rows \in UNION {[1..n -> [{"Q_1comment"} -> MentionCells]] :
                                    n \in 0..MaxMentionRows}}
        \cup {NoColumnDf(n) : n \in 0..MaxMentionRows}
        \cup {ScenarioMentions}

InitMentions ==
    /\ pc = "idle"
    /\ out = NoOut
    /\ df \in MentionDfs
    /\ args \in [prefix : {"Q"}, max_slots : {2, 4}]

ProcessOpenEndedComments ==
    /\ pc = "idle"
    /\ out' = process_open_ended_comments(df, args.prefix, args.max_slots)
    /\ pc' = "process_open_ended_comments"
    /\ UNCHANGED <<df, args>>

NextMentions == ProcessOpenEndedComments

SpecMentions == InitMentions /\ [][NextMentions]_vars

(***************************************************************************)
(* Properties of process_open_ended_comments (checked under SpecMentions). *)
(***************************************************************************)
\* The placeholder tokens of the specification, compared in lower case.
PlaceholderTokens == {"nan", "none", "0", ""}

\* The trimmed text of slot k of respondent i.
SlotText(k, i) == str_strip(df.rows[i][comment_col(args.prefix, k)].s)

\* The (slot, respondent) pairs that hold a mention: a text that, trimmed
\* and lower-cased, is no placeholder token.
MentionSlots ==
    {p \in (1..args.max_slots) \X (DOMAIN df.rows) :
        /\ comment_col(args.prefix, p[1]) \in df.columns
        /\ df.rows[p[2]][comment_col(args.prefix, p[1])].k = "str"
        /\ str_lower(SlotText(p[1], p[2])) \notin PlaceholderTokens}

\* The order in which the slots are read: slot after slot, and within a
\* slot respondent after respondent.
ReadBefore(p, q) == p[1] < q[1] \/ (p[1] = q[1] /\ p[2] < q[2])

GroupOf(g) == {p \in MentionSlots : str_lower(SlotText(p[1], p[2])) = g}

MentionGroups == {str_lower(SlotText(p[1], p[2])) : p \in MentionSlots}

\* C15: the mention table has one row per lower-cased form of the texts
\* that are no placeholder, with the number of occurrences over all slots
\* and respondents and, as representative, the first such text read; rows
\* are in non-increasing order of Count; slots ['A', '', 'a', 'B'] of one
\* respondent give A with count 2 and B with count 1.
C15_MentionsGrouped ==
    pc = "process_open_ended_comments" =>
        /\ Len(out.mentions.rows) = Cardinality(MentionGroups)
        /\ \A g \in MentionGroups :
              \E r \in Range(out.mentions.rows) :
                  /\ r.Count = Cardinality(GroupOf(g))
                  /\ \E p \in GroupOf(g) :
                        /\ r.Mentioned = SlotText(p[1], p[2])
                        /\ \A q \in GroupOf(g) \ {p} : ReadBefore(p, q)
        /\ RowsDescendingBy(out.mentions.rows, "Count")
        /\ (df = ScenarioMentions /\ args.max_slots = 4) =>
              out.mentions.rows = <<[Mentioned |-> "A", Count |-> 2],
                                    [Mentioned |-> "B", Count |-> 1]>>

C15_Witness ==
    /\ pc = "process_open_ended_comments"
    /\ Len(df.rows) = 2
    /\ Len(out.mentions.rows) = 2
    /\ \E r \in Range(out.mentions.rows) :
          /\ r.Count >= 2
          /\ \E p, q \in GroupOf(str_lower(r.Mentioned)) :
                /\ p[2] # q[2]
                /\ SlotText(p[1], p[2]) # SlotText(q[1], q[2])

\* The number of mentions of respondent i.
MentionsOf(i) == Cardinality({p \in MentionSlots : p[2] = i})

\* C16: a respondent's number of mentions is the number of their slot
\* values that, trimmed, are no placeholder token in any letter case; the
\* segment table has one row per k > 0 met, with the number of respondents
\* of exactly k mentions and its percent over all records, and no row for
\* k = 0; slots ['A', '', 'a', 'B'] are 3 mentions.
C16_SegmentsCaseInsensitive ==
    (pc = "process_open_ended_comments"
        /\ valid_comment_cols(df, args.prefix, args.max_slots) # <<>>) =>
        LET ks == {MentionsOf(i) : i \in DOMAIN df.rows} \ {0}
            UsersOf(k) == {i \in DOMAIN df.rows : MentionsOf(i) = k}
        IN /\ Len(out.segments.rows) = Cardinality(ks)
           /\ \A k \in ks :
                 \E r \in Range(out.segments.rows) :
                     /\ r.mentions_count = k
                     /\ r.num_users = Cardinality(UsersOf(k))
                     /\ TwiceError(r.percent, r.num_users, Len(df.rows))
                           <= Len(df.rows)
           /\ (df = ScenarioMentions /\ args.max_slots = 4) =>
                 out.segments.rows = <<[mentions_count |-> 3, num_users |-> 1,
                                        percent |-> 1000]>>

\* C17: on a dataset that lacks the comment columns, or that holds no
\* mention, process_open_ended_comments returns empty tables that carry
\* their fixed column sets, never a table without shape.
C17_EmptyTablesShaped ==
    (pc = "process_open_ended_comments" /\ MentionSlots = {}) =>
        /\ out.segments = EmptyTable(SegmentColumns)
        /\ out.mentions = EmptyTable(MentionColumns)

\* The mentions the segment table accounts for, and those the mention
\* table accounts for.
SegmentMentions ==
    SumSeq([k \in DOMAIN out.segments.rows |->
               out.segments.rows[k].mentions_count
                   * out.segments.rows[k].num_users])

TableMentions ==
    SumSeq([k \in DOMAIN out.mentions.rows |-> out.mentions.rows[k].Count])

\* C27: the two tables agree on the number of mentions: the sum of
\* mentions_count * num_users over the segment rows equals the sum of Count
\* over the mention rows.
C27_TablesAgree ==
    pc = "process_open_ended_comments" => SegmentMentions = TableMentions

\* The tables agree on datasets whose slot texts are no placeholder
\* spelling that only one of the two token lists holds.
C27_AgreeWithoutPlaceholderSpellings ==
    (pc = "process_open_ended_comments"
        /\ \A i \in DOMAIN df.rows : \A c \in df.columns :
               df.rows[i][c].k = "str" =>
                   str_lower(str_strip(df.rows[i][c].s)) \notin {"none", "nan"})
        => SegmentMentions = TableMentions

(***************************************************************************)
(* page_section3: the questions of the page, computed and rendered one     *)
(* after another in the body of one function.  The page has no exception   *)
(* handler, so a statement that raises ends the page function there.       *)
(***************************************************************************)
\* mappings.py: the code -> label dictionaries the page passes on.
TV_CHANNELS_MAP == (1 :> "H1" @@ 2 :> "Shant")
RADIO_CHANNELS_MAP == (1 :> "Radio Van" @@ 2 :> "Aurora")
TV_SUBSCRIPTION_MAP == (1 :> "Antenna" @@ 2 :> "Internet")
TV_PROGRAM_TYPES_MAP == (1 :> "News" @@ 2 :> "Films")
TV_PROGRAMS_NEWS_MAP == (1 :> "Evening news" @@ 2 :> "Morning news")
TV_PROGRAMS_ENTERTAINMENT_MAP == (1 :> "Quiz" @@ 2 :> "Talk show")
TV_PROGRAMS_SERIES_MAP == (1 :> "Series A" @@ 2 :> "Series B")
RADIO_PROGRAM_TYPES_MAP == (1 :> "Music" @@ 2 :> "Talk")

\* The R2 texts that contain the word for cable television.
CableTexts == {"Cable TV", "cable and antenna"}

\* df[df["R2"].astype(str).str.contains(<cable>, na=False, case=False)]
df_cable(d) ==
    IF "R2" \in d.columns
    THEN [d EXCEPT !.rows = SelectSeq(d.rows, LAMBDA r :
                      astype_str(r["R2"], d.dtype["R2"]) \in CableTexts)]
    ELSE d

\* The table a page builds inline from the indicator columns prefix_1 ..
\* prefix_n: counts[MAP[i]] = yes_count when positive and i is in MAP; the
\* percent is of the mentions (R4, R6) or of len(df) (R51, R53, R56).
inline_yes_table(d, prefix, n, mapping, of_mentions) ==
    LET counts == assign_positive(code_pairs(d, prefix, n, mapping))
    IN IF counts = <<>> THEN EmptyTable(FreqColumns)
       ELSE [columns |-> FreqColumns,
             rows |-> sort_values_desc(
                         with_percent(counts,
                             IF of_mentions THEN counts_sum(counts)
                             ELSE Len(d.rows)), "percent")]

\* df["R7"].dropna().unique()
r7_values(d) == Unique(SelectSeq(Column(d, "R7"), LAMBDA c : ~isna(c)))

\* sorted(values) raises TypeError when it has to order a text against a
\* number: every ordering of a list that holds both compares one such pair.
sorted_raises(values) ==
    /\ \E i \in DOMAIN values : values[i].k = "str"
    /\ \E i \in DOMAIN values : values[i].k = "num"

Section3Questions ==
    <<"R1", "R2", "R21", "R3", "R4", "R51", "R53", "R56", "R6", "R7">>

\* What a chart function shows for a table; grouped_bar_chart,
\* bar_chart_horizontal and donut_chart all start with the same test.
shown_for(tab) == IF tab.rows = <<>> THEN "info" ELSE "chart"

Rendered(q, what) == [question |-> q, shown |-> what, error |-> "none"]
Raised(q, e) == [question |-> q, shown |-> "nothing", error |-> e]

\* One question of the page: what it shows, or the error it raises.
question(d, q) ==
    CASE q = "R1" ->
           Rendered(q, shown_for(combine_tom_other_promp(
               d, "R1TOM", "R1Other_", "R1Propm_", 19, TV_CHANNELS_MAP,
               SomeSet({0, 999}))))
      [] q = "R2" ->
           Rendered(q, shown_for(freq_single_section3(
               d, "R2", SomeMap(TV_SUBSCRIPTION_MAP), SomeSet({0, 99}))))
      [] q = "R21" ->
           Rendered(q, shown_for(freq_single_section3(
               df_cable(d), "R21", NoneMap, SomeSet({0, 99}))))
      [] q = "R3" ->
           Rendered(q, shown_for(combine_tom_other_promp(
               d, "R3TOM", "R3Other_", "R3Propm_", 20, RADIO_CHANNELS_MAP,
               SomeSet({0, 999}))))
      [] q = "R4" ->
           Rendered(q, shown_for(inline_yes_table(
               d, "R4_", 7, TV_PROGRAM_TYPES_MAP, TRUE)))
      [] q = "R51" ->
           Rendered(q, shown_for(inline_yes_table(
               d, "R51_", 7, TV_PROGRAMS_NEWS_MAP, FALSE)))
      [] q = "R53" ->
           Rendered(q, shown_for(inline_yes_table(
               d, "R53_", 10, TV_PROGRAMS_ENTERTAINMENT_MAP, FALSE)))
      [] q = "R56" ->
           Rendered(q, shown_for(inline_yes_table(
               d, "R56_", 4, TV_PROGRAMS_SERIES_MAP, FALSE)))
      [] q = "R6" ->
           Rendered(q, shown_for(inline_yes_table(
               d, "R6_", 7, RADIO_PROGRAM_TYPES_MAP, TRUE)))
      [] q = "R7" ->
           IF "R7" \notin d.columns \/ r7_values(d) = <<>>
           THEN Rendered(q, "info")
           ELSE IF sorted_raises(r7_values(d))
                THEN Raised(q, "TypeError")
                ELSE Rendered(q, "list")

\* The body of the page, given the outcome of each question taken alone:
\* the questions are rendered in page order, and the first one that raises
\* ends the function with its error.
page_outcome(results) ==
    LET failing == {k \in DOMAIN results : results[k].error # "none"}
        stop == IF failing = {} THEN Len(results) + 1
                ELSE CHOOSE k \in failing : \A j \in failing : k <= j
    IN [rendered |-> SubSeq(results, 1, stop - 1),
        error |-> IF failing = {} THEN "none" ELSE results[stop].error]

\* The filter widgets are at their defaults, so render_filters returns a
\* copy of the whole dataset.
page_section3(d) ==
    page_outcome([k \in DOMAIN Section3Questions |->
                     question(d, Section3Questions[k])])

(***************************************************************************)
(* SpecPage: one render of the Section 3 page over a small dataset.        *)
(***************************************************************************)
MaxPageRows == 2

R2Cells == {NA, Num(1), Str("Cable TV")}
R4Cells == {Str("Yes"), Str("No")}
R7Cells == {NA, Str("Lratu"), Str("Aravot"), Num(107)}

PageFields == {"R2", "R21", "R4_1", "R7"}

PageRows ==
    {[c \in PageFields |->
        CASE c = "R2" -> r2 [] c = "R21" -> r21 [] c = "R4_1" -> r4
          [] c = "R7" -> r7] :
        r2 \in R2Cells, r21 \in {NA, Str("Ucom")}, r4 \in R4Cells,
        r7 \in R7Cells}

PageDfs ==
    {DfOfRows(cs, [i \in DOMAIN rows |-> [c \in cs |-> rows[i][c]]]) :
        cs \in {PageFields, PageFields \ {"R7"}, {"R7"}},
        rows \in UNION {[1..n -> PageRows] : n \in 0..MaxPageRows}}

NoPage == [rendered |-> <<>>, error |-> "none"]

InitPage ==
    /\ pc = "idle"
    /\ out = NoPage
    /\ df \in PageDfs
    /\ args = [page |-> "section3"]

PageSection3 ==
    /\ pc = "idle"
    /\ out' = page_section3(df)
    /\ pc' = "page_section3"
    /\ UNCHANGED <<df, args>>

NextPage == PageSection3

SpecPage == InitPage /\ [][NextPage]_vars

(***************************************************************************)
(* Properties of a page render, under SpecPage.                            *)
(***************************************************************************)
RenderedQuestions == {out.rendered[i].question : i \in DOMAIN out.rendered}

\* C19: a question that raises is contained: every question placed after
\* it on the page is still rendered, and the page function ends without an
\* error.
C19_FailureContained ==
    pc = "page_section3" =>
        /\ out.error = "none"
        /\ \A k \in DOMAIN Section3Questions :
              (\E j \in 1..(k - 1) :
                  question(df, Section3Questions[j]).error # "none")
              => Section3Questions[k] \in RenderedQuestions

(***************************************************************************)
(* A session: the loaded dataset df_raw is handed to the page chosen in    *)
(* the sidebar each time the script runs (a filter changed, another page   *)
(* was chosen, or any other interaction).  Besides its result, every       *)
(* function is followed by the dataframe object it was given as the call   *)
(* leaves it.                                                              *)
(***************************************************************************)
D4_1_INDUSTRY_MAP == (1 :> "Trade" @@ 2 :> "Education" @@ 99 :> "Refused")

\* The caller's dataframe after render_filters, had the rows been dropped
\* from it in place.
render_filters_df_inplace(d, sel) == render_filters(d, sel)

\* The caller's dataframe after render_filters: filt_df = df.copy(), and
\* each filter rebinds filt_df to a new selection; df is only read.
render_filters_df(d, sel) == d

\* The caller's dataframe after freq_single: series = df[col].copy(), and
\* fillna, dropna, the exclusion and the mapping each return a new series.
freq_single_df(d, col, include_null) == d

\* The freq_single calls of page_demography, in page order.
DemographyQuestions ==
    <<[col |-> "S2", mapping |-> NoneMap,
       exclude_values |-> SomeSet({0, 999}), include_null |-> FALSE],
      [col |-> "AGE_GRP", mapping |-> NoneMap,
       exclude_values |-> NoneSet, include_null |-> FALSE],
      [col |-> "S3", mapping |-> NoneMap,
       exclude_values |-> SomeSet({0, 999}), include_null |-> FALSE],
      [col |-> "S5", mapping |-> NoneMap,
       exclude_values |-> SomeSet({0, 999}), include_null |-> TRUE],
      [col |-> "Dev_lbl", mapping |-> NoneMap,
       exclude_values |-> NoneSet, include_null |-> FALSE],
      [col |-> "D1", mapping |-> SomeMap(D1_MARITAL_STATUS_MAP),
       exclude_values |-> SomeSet({99}), include_null |-> FALSE],
      [col |-> "D4", mapping |-> SomeMap(D4_EMPLOYMENT_STATUS_MAP),
       exclude_values |-> SomeSet({99}), include_null |-> FALSE],
      [col |-> "D41", mapping |-> SomeMap(D4_1_INDUSTRY_MAP),
       exclude_values |-> SomeSet({99}), include_null |-> FALSE],
      [col |-> "D6", mapping |-> SomeMap(D6_INCOME_MAP),
       exclude_values |-> SomeSet({99}), include_null |-> FALSE]>>

\* The first k tabulations of a page over the filtered dataframe: their
\* tables, and the filtered dataframe as they leave it.
RECURSIVE tabulate_all(_, _, _)
tabulate_all(filt, qs, k) ==
    IF k = 0 THEN [filt |-> filt, tables |-> <<>>]
    ELSE LET before == tabulate_all(filt, qs, k - 1)
             q == qs[k]
         IN [filt |-> freq_single_df(before.filt, q.col, q.include_null),
             tables |-> Append(before.tables,
                           freq_single_app(before.filt, q.col, q.mapping,
                               q.exclude_values, q.include_null))]

\* page_demography(df): df = render_filters(df, key_prefix="demo"), then
\* the tabulations.  The result names the loaded dataframe after the run,
\* the filtered dataframe after the run and what the page computed.
page_demography(d, sel) ==
    LET r == tabulate_all(render_filters(d, sel), DemographyQuestions,
                          Len(DemographyQuestions))
    IN [df |-> render_filters_df(d, sel), filt |-> r.filt,
        tables |-> r.tables]

\* page_section3(df) with its own filter selection.
page_section3_filtered(d, sel) ==
    LET filt == render_filters(d, sel)
    IN [df |-> render_filters_df(d, sel), filt |-> filt,
        tables |-> page_section3(filt).rendered]

Pages == {"demo", "sec3"}

\* The dispatch on the sidebar choice at the end of app.py.
run_page(p, d, sel) ==
    IF p = "demo" THEN page_demography(d, sel)
    ELSE page_section3_filtered(d, sel)

(***************************************************************************)
(* SpecSession: a bounded number of script runs over one loaded dataset.   *)
(***************************************************************************)
MaxRuns == 3

\* The loaded datasets: at least three of the five respondents.
SessionDfs ==
    {DfOfRows(FilterFields, PickRows(I, FilterFields, Len(Respondents))) :
        I \in {J \in SUBSET DOMAIN Respondents : Cardinality(J) >= 3}}

\* The widgets the session operates, and what it selects in them: the
\* default or one option.
SessionWidgets == {"sex", "d1"}

SessionChoices(d, w) == {{ALL}} \cup {{v} : v \in AllOptions(d, w)}

DefaultSel == [w \in WidgetSet |-> {ALL}]

NotRun == [seen |-> FALSE, sel |-> DefaultSel, tables |-> <<>>]

InitSession ==
    /\ pc = "idle"
    /\ df \in SessionDfs
    /\ args = [page |-> "demo", sel |-> [p \in Pages |-> DefaultSel],
               loaded |-> df]
    /\ out = [filt |-> df, tables |-> <<>>, first |-> [p \in Pages |-> NotRun],
              n |-> 0]

\* The state after a run of page p under the widget states sel, r being
\* what the page left behind.
Ran(p, sel, r) ==
    /\ out.n < MaxRuns
    /\ df' = r.df
    /\ args' = [args EXCEPT !.page = p, !.sel = sel]
    /\ out' = [filt |-> r.filt, tables |-> r.tables,
               first |-> IF out.first[p].seen THEN out.first
                         ELSE [out.first EXCEPT ![p] =
                                 [seen |-> TRUE, sel |-> sel[p],
                                  tables |-> r.tables]],
               n |-> out.n + 1]
    /\ pc' = IF p = "demo" THEN "page_demography" ELSE "page_section3"

\* One run of the script with page p chosen and the widget states sel (kept
\* per page, the widget keys carry the page's prefix).
Run(p, sel) == Ran(p, sel, run_page(p, df, sel[p]))

\* The user changes one filter widget of the current page.
ChangeFilter(w) ==
    \E s \in SessionChoices(df, w) :
        /\ s # args.sel[args.page][w]
        /\ ValidSel(df, [args.sel[args.page] EXCEPT ![w] = s])
        /\ Run(args.page, [args.sel EXCEPT ![args.page][w] = s])

\* The user chooses another page in the sidebar.
Navigate(p) == p # args.page /\ Run(p, args.sel)

\* Any other interaction: the script runs again, nothing changed.
Rerun == Run(args.page, args.sel)

NextSession ==
    \/ \E w \in SessionWidgets : ChangeFilter(w)
    \/ \E p \in Pages : Navigate(p)
    \/ Rerun

SpecSession == InitSession /\ [][NextSession]_vars

Absent == [set |-> FALSE, v |-> <<>>]
Held(t) == [set |-> TRUE, v |-> t]

\* x in container: a part of the text when the container is a text, an
\* element when it is a list.
py_in(x, container) ==
    IF container.k = "str"
    THEN \E i \in 0..(Len(container.s) - Len(x)) :
            SubSeq(container.s, i + 1, i + Len(x)) = x
    ELSE \E i \in DOMAIN container.items : container.items[i] = x

\* The on_click callback, had it left the two fields in the session state.
password_entered_keeping(session_state, secrets) ==
    IF /\ py_in(session_state.username.v, secrets.username)
       /\ session_state.password.v = secrets.password
    THEN [session_state EXCEPT !.password_correct = "true"]
    ELSE [session_state EXCEPT !.password_correct = "false"]

\* The on_click callback of the login form.
password_entered(session_state, secrets) ==
    IF /\ py_in(session_state.username.v, secrets.username)
       /\ session_state.password.v = secrets.password
    THEN [password_correct |-> "true", username |-> Absent,
          password |-> Absent]
    ELSE [session_state EXCEPT !.password_correct = "false"]

\* The login form: a text_input with a key puts its value, "" at first,
\* into the session state.
login_form(session_state) ==
    [session_state EXCEPT
        !.username = IF @.set THEN @ ELSE Held(<<>>),
        !.password = IF @.set THEN @ ELSE Held(<<>>)]

check_password(session_state) ==
    IF session_state.password_correct = "absent"
    THEN [ret |-> FALSE, shown |-> "form",
          session_state |-> login_form(session_state)]
    ELSE IF session_state.password_correct = "false"
    THEN [ret |-> FALSE, shown |-> "form and error",
          session_state |-> login_form(session_state)]
    ELSE [ret |-> TRUE, shown |-> "nothing", session_state |-> session_state]

\* One run of the script, had the data been loaded before the gate.
script_loading_first(session_state) ==
    LET c == check_password(session_state)
    IN [session_state |-> c.session_state, loaded |-> TRUE,
        shown |-> IF c.ret THEN "page" ELSE c.shown]

\* One run of the script: if not check_password(): st.stop(); then
\* df_raw = load_data() and the page chosen in the sidebar.
script(session_state) ==
    LET c == check_password(session_state)
    IN [session_state |-> c.session_state, loaded |-> c.ret,
        shown |-> IF c.ret THEN "page" ELSE c.shown]

(***************************************************************************)
(* SpecLogin: a browser session of a bounded number of script runs.        *)
(***************************************************************************)
MaxLoginRuns == 3

\* The configured credentials, and what a user may type.
SecretsChoices ==
    [username : {[k |-> "str", s |-> <<"a", "b">>, items |-> <<>>],
                 [k |-> "list", s |-> <<>>, items |-> <<<<"a", "b">>>>],
                 [k |-> "list", s |-> <<>>,
                  items |-> <<<<"a", "b">>, <<"c">>>>]},
     password : {<<"p", "w">>}]

TypedUsernames == {<<>>, <<"a">>, <<"b">>, <<"a", "b">>, <<"a", "b", "c">>,
                   <<"c">>}
TypedPasswords == {<<>>, <<"p">>, <<"p", "w">>, <<"P", "w">>}

InitLogin ==
    /\ pc = "idle"
    /\ df = [loaded |-> FALSE]
    /\ args \in [secrets : SecretsChoices]
    /\ out = [session_state |-> [password_correct |-> "absent",
                                 username |-> Absent, password |-> Absent],
              log |-> <<>>,
              submitted |-> [username |-> <<>>, password |-> <<>>]]

\* The state after a run r of the script; submitted is what was last typed.
AfterRun(r, submitted, step) ==
    /\ Len(out.log) < MaxLoginRuns
    /\ df' = [loaded |-> r.loaded]
    /\ out' = [session_state |-> r.session_state,
               log |-> Append(out.log, r.shown), submitted |-> submitted]
    /\ pc' = step
    /\ UNCHANGED args

\* The first visit, or a run caused by anything but the login button.
Visit == AfterRun(script(out.session_state), out.submitted, "visit")

\* The user fills in the form shown by the last run and presses Login: the
\* fields are stored, the callback runs, then the script.
Submit ==
    /\ out.log # <<>>
    /\ out.log[Len(out.log)] \in {"form", "form and error"}
    /\ \E u \in TypedUsernames, p \in TypedPasswords :
          AfterRun(script(password_entered(
                       [out.session_state EXCEPT !.username = Held(u),
                                                 !.password = Held(p)],
                       args.secrets)),
                   [username |-> u, password |-> p], "submit")

NextLogin == Visit \/ Submit

SpecLogin == InitLogin /\ [][NextLogin]_vars

(***************************************************************************)
(* Properties of the access gate, under SpecLogin.                         *)
(***************************************************************************)
PasswordCorrect == out.session_state.password_correct = "true"

\* C21: the dataset is loaded and a page is rendered only in a state where
\* password_correct is true; a run on the first visit or after a failed
\* attempt shows the login form and stops before the data load.
C21_GateBeforeLoad ==
    /\ (df.loaded \/ (out.log # <<>> /\ out.log[Len(out.log)] = "page"))
          => PasswordCorrect
    /\ (out.log # <<>> /\ ~PasswordCorrect)
          => /\ ~df.loaded
             /\ out.log[Len(out.log)] =
                   IF out.session_state.password_correct = "absent"
                   THEN "form" ELSE "form and error"

\* A first visit, a failed attempt, then a successful login.
C21_Witness ==
    /\ out.log = <<"form", "form and error", "page">>
    /\ df.loaded

\* The entries of the configured allow-list.
AllowList ==
    IF args.secrets.username.k = "str" THEN {args.secrets.username.s}
    ELSE Range(args.secrets.username.items)

\* C22: a submission sets password_correct to true exactly when the
\* username equals an entry of the allow-list and the password equals the
\* configured password; any other submission sets it to false.
C22_ExactMatch ==
    pc = "submit" =>
        (PasswordCorrect <=>
            /\ out.submitted.username \in AllowList
            /\ out.submitted.password = args.secrets.password)

\* C30: while password_correct is true the session state holds neither the
\* submitted username nor the submitted password, and no later run sets
\* password_correct back to false.
C30_NoCredentialsKept ==
    /\ [](PasswordCorrect =>
            /\ ~out.session_state.username.set
            /\ ~out.session_state.password.set)
    /\ [][PasswordCorrect => PasswordCorrect']_vars

\* A successful login followed by a further run of the script.
C30_Witness ==
    /\ PasswordCorrect
    /\ out.log = <<"form", "page", "page">>
    /\ out.submitted.username # <<>>

(***************************************************************************)
(* load_data: the column names are stripped, then the age bracket and the  *)
(* device label are derived.  A number with a fractional part is the cell  *)
(* Flt(t), t its value in tenths.                                          *)
(***************************************************************************)
Flt(t) == [k |-> "flt", n |-> t, s |-> ""]

\* c.strip() over the column names of the model.
strip_name(c) ==
    CASE c \in {"AGE ", " AGE"} -> "AGE"
      [] c \in {"Dev ", " Dev"} -> "Dev"
      [] OTHER -> c

\* df.columns = [c.strip() for c in df.columns]
strip_columns(d) ==
    LET old(c) == CHOOSE o \in d.columns : strip_name(o) = c
        cs == {strip_name(o) : o \in d.columns}
    IN [columns |-> cs,
        dtype |-> [c \in cs |-> d.dtype[old(c)]],
        rows |-> [i \in DOMAIN d.rows |-> [c \in cs |-> d.rows[i][old(c)]]]]

\* int(age): a number is truncated towards zero, a text is parsed as a
\* whole number (blanks around it allowed) or raises ValueError.
py_int(age) ==
    CASE age.k = "num" -> [raised |-> FALSE, a |-> age.n]
      [] age.k = "flt" ->
           [raised |-> FALSE,
            a |-> IF age.n >= 0 THEN age.n \div 10 ELSE -((-age.n) \div 10)]
      [] age.s = "21" -> [raised |-> FALSE, a |-> 21]
      [] age.s = " 70 " -> [raised |-> FALSE, a |-> 70]
      [] OTHER -> [raised |-> TRUE, a |-> 0]

\* The labels of the eight brackets, youngest first.
AgeLabels ==
    <<"under 16", "16-20", "21-29", "30-39", "40-49", "50-59", "60-69",
      "70 and more">>

\* The chain of comparisons with 16 put into the first bracket.
age_to_group_16_young(age) ==
    IF isna(age) THEN NA
    ELSE LET r == py_int(age)
             a == r.a
         IN IF r.raised THEN NA
            ELSE IF a <= 16 THEN Str(AgeLabels[1])
            ELSE IF 16 <= a /\ a <= 20 THEN Str(AgeLabels[2])
            ELSE IF 21 <= a /\ a <= 29 THEN Str(AgeLabels[3])
            ELSE IF 30 <= a /\ a <= 39 THEN Str(AgeLabels[4])
            ELSE IF 40 <= a /\ a <= 49 THEN Str(AgeLabels[5])
            ELSE IF 50 <= a /\ a <= 59 THEN Str(AgeLabels[6])
            ELSE IF 60 <= a /\ a <= 69 THEN Str(AgeLabels[7])
            ELSE Str(AgeLabels[8])

age_to_group(age) ==
    IF isna(age) THEN NA
    ELSE LET r == py_int(age)
             a == r.a
         IN IF r.raised THEN NA
            ELSE IF a < 16 THEN Str(AgeLabels[1])
            ELSE IF 16 <= a /\ a <= 20 THEN Str(AgeLabels[2])
            ELSE IF 21 <= a /\ a <= 29 THEN Str(AgeLabels[3])
            ELSE IF 30 <= a /\ a <= 39 THEN Str(AgeLabels[4])
            ELSE IF 40 <= a /\ a <= 49 THEN Str(AgeLabels[5])
            ELSE IF 50 <= a /\ a <= 59 THEN Str(AgeLabels[6])
            ELSE IF 60 <= a /\ a <= 69 THEN Str(AgeLabels[7])
            ELSE Str(AgeLabels[8])

dev_map == (1 :> "Smartphone" @@ 2 :> "Feature phone")

\* df[name] = series: a new column of texts and missing values.
with_column(d, name, series) ==
    [columns |-> d.columns \cup {name},
     dtype |-> [c \in d.columns \cup {name} |->
                  IF c = name THEN "object" ELSE d.dtype[c]],
     rows |-> [i \in DOMAIN d.rows |->
                  [c \in d.columns \cup {name} |->
                      IF c = name THEN series[i] ELSE d.rows[i][c]]]]

\* The Dev_lbl column, had the rows without a known code been dropped.
with_dev_lbl_known_only(d) ==
    IF "Dev" \notin d.columns THEN d
    ELSE LET known == [d EXCEPT !.rows = SelectSeq(d.rows, LAMBDA r :
                          r["Dev"].k = "num" /\ r["Dev"].n \in DOMAIN dev_map)]
         IN with_column(known, "Dev_lbl",
                map_fillna(Column(known, "Dev"), dev_map, d.dtype["Dev"]))

\* df["Dev_lbl"] = df["Dev"].map(dev_map).fillna(df["Dev"].astype(str))
with_dev_lbl(d) ==
    IF "Dev" \notin d.columns THEN d
    ELSE with_column(d, "Dev_lbl",
             map_fillna(Column(d, "Dev"), dev_map, d.dtype["Dev"]))

\* df["AGE_GRP"] = df["AGE"].apply(age_to_group)
with_age_grp(d) ==
    IF "AGE" \notin d.columns THEN d
    ELSE with_column(d, "AGE_GRP",
             [i \in DOMAIN d.rows |-> age_to_group(d.rows[i]["AGE"])])

load_data(d) == with_dev_lbl(with_age_grp(strip_columns(d)))

(***************************************************************************)
(* SpecLoad: load_data applied to every sheet of a bounded family.         *)
(***************************************************************************)
MaxAge == 72

\* The ages of a sheet: whole numbers from -1 on, missing, fractional and
\* textual entries.
AgeCells ==
    {Num(a) : a \in -1..MaxAge}
        \cup {NA, Flt(159), Flt(205), Flt(-5), Str("21"), Str(" 70 "),
              Str("abc"), Str("21.5"), Str("")}

DevCells == {NA, Num(1), Num(2), Num(3), Str("tablet")}

\* The dtype pandas gives a column read from the sheet.
SheetDtype(series) ==
    IF \E i \in DOMAIN series : series[i].k = "str" THEN "object"
    ELSE IF \E i \in DOMAIN series : series[i].k \in {"na", "flt"}
    THEN "float64" ELSE "int64"

\* A sheet with the columns named age_name and dev_name (dev_name "" for
\* a sheet without device column).
Sheet(age_name, dev_name, ages, devs) ==
    LET cs == {age_name} \cup (IF dev_name = "" THEN {} ELSE {dev_name})
    IN [columns |-> cs,
        dtype |-> [c \in cs |-> IF c = age_name THEN SheetDtype(ages)
                                ELSE SheetDtype(devs)],
        rows |-> [i \in DOMAIN ages |->
                    [c \in cs |-> IF c = age_name THEN ages[i] ELSE devs[i]]]]

\* One-row sheets with every age and device entry, two-row sheets with
\* every pair of ages.
Sheets ==
    {Sheet(an, dn, <<a>>, <<v>>) :
        an \in {"AGE", "AGE ", "YEAR"}, dn \in {"Dev", " Dev", ""},
        a \in AgeCells, v \in DevCells}
    \cup {Sheet("AGE", "Dev", <<a, b>>, <<v, Num(1)>>) :
            a \in AgeCells, b \in AgeCells, v \in {NA, Num(3)}}

InitLoad ==
    /\ pc = "idle"
    /\ df \in Sheets
    /\ args = [path |-> "Media_Research.xlsx"]
    /\ out = NoOut

LoadData ==
    /\ pc = "idle"
    /\ out' = load_data(df)
    /\ pc' = "load_data"
    /\ UNCHANGED <<df, args>>

NextLoad == LoadData

SpecLoad == InitLoad /\ [][NextLoad]_vars

(***************************************************************************)
(* Properties of load_data, under SpecLoad.                                *)
(***************************************************************************)
\* The age column of the sheet, whatever blanks surround its name.
SheetAge(i) ==
    df.rows[i][CHOOSE c \in df.columns : strip_name(c) = "AGE"]

HasAge == \E c \in df.columns : strip_name(c) = "AGE"

\* The lower boundaries of the brackets after the first.
BracketFrom == <<16, 21, 30, 40, 50, 60, 70>>

\* The position of the bracket of a whole age: one more than the number of
\* boundaries it has reached.
BracketOf(a) == 1 + Cardinality({k \in DOMAIN BracketFrom : a >= BracketFrom[k]})

Unparseable(c) == c.k = "str" /\ c.s \in {"abc", "21.5", ""}

\* C23: every whole age gets the one bracket its boundaries give, the
\* bracket does not decrease with the age, and a missing or unparseable age
\* gets a missing bracket.
C23_AgeBrackets ==
    (pc = "load_data" /\ HasAge) =>
        /\ "AGE_GRP" \in out.columns
        /\ Len(out.rows) = Len(df.rows)
        /\ \A i \in DOMAIN df.rows :
              /\ SheetAge(i).k = "num" =>
                    out.rows[i]["AGE_GRP"] =
                        Str(AgeLabels[BracketOf(SheetAge(i).n)])
              /\ (isna(SheetAge(i)) \/ Unparseable(SheetAge(i))) =>
                    out.rows[i]["AGE_GRP"] = NA
        /\ \A i, j \in DOMAIN df.rows :
              (SheetAge(i).k = "num" /\ SheetAge(j).k = "num"
                  /\ SheetAge(i).n <= SheetAge(j).n) =>
                 \E m, n \in DOMAIN AgeLabels :
                    /\ m <= n
                    /\ out.rows[i]["AGE_GRP"] = Str(AgeLabels[m])
                    /\ out.rows[j]["AGE_GRP"] = Str(AgeLabels[n])

\* The ages 16 and 15 in one sheet: two brackets, the older first.
C23_Witness ==
    /\ pc = "load_data"
    /\ Len(df.rows) = 2
    /\ df.rows[1]["AGE"] = Num(16) /\ df.rows[2]["AGE"] = Num(15)
    /\ out.rows[1]["AGE_GRP"] = Str("16-20")
    /\ out.rows[2]["AGE_GRP"] = Str("under 16")

\* The device column of the sheet, whatever blanks surround its name.
SheetDev(i) ==
    df.rows[i][CHOOSE c \in df.columns : strip_name(c) = "Dev"]

HasDev == \E c \in df.columns : strip_name(c) = "Dev"

\* C24: the codes 1 and 2 get their fixed labels and every other value its
\* own string form; loading drops no record, and every record has a device
\* label.
C24_DeviceLabel ==
    pc = "load_data" =>
        /\ Len(out.rows) = Len(df.rows)
        /\ HasDev =>
              /\ "Dev_lbl" \in out.columns
              /\ \A i \in DOMAIN df.rows :
                    LET v == SheetDev(i)
                        lbl == out.rows[i]["Dev_lbl"]
                    IN /\ lbl.k = "str"
                       /\ v = Num(1) => lbl.s = "Smartphone"
                       /\ v = Num(2) => lbl.s = "Feature phone"
                       /\ (v.k = "num" /\ v.n \notin {1, 2}) =>
                             lbl.s \in {ToString(v.n), ToString(v.n) \o ".0"}
                       /\ v.k = "str" => lbl.s = v.s

\* A sheet with the unknown code 3 and the known code 1.
C24_Witness ==
    /\ pc = "load_data"
    /\ Len(out.rows) = 2
    /\ df.rows[1]["Dev"] = Num(3)
    /\ out.rows[1]["Dev_lbl"] = Str("3")
    /\ out.rows[2]["Dev_lbl"] = Str("Smartphone")

(***************************************************************************)
(* The order of value_counts.  It sorts its counts with                    *)
(* sort_values(ascending=False), whose default kind is numpy's quicksort:  *)
(* an insertion sort, which keeps equal counts in their order, while       *)
(* pr - pl is at most SMALL_QUICKSORT, and a partitioning sort, which      *)
(* leaves the order of equal counts unspecified, above that.               *)
(***************************************************************************)
SMALL_QUICKSORT == 16

\* rows with the rows i and i + 1 exchanged.
swap_rows(rows, i) ==
    [k \in DOMAIN rows |->
        IF k = i THEN rows[i + 1] ELSE IF k = i + 1 THEN rows[i] ELSE rows[k]]

\* The tables value_counts may return, had the sort always been stable.
value_counts_outcomes_stable(series) == {value_counts(series)}

\* The tables value_counts may return: the stable order, and for a long
\* table also the orders with two neighbours of equal count exchanged.
value_counts_outcomes(series) ==
    LET stable == value_counts(series)
    IN IF Len(stable) - 1 <= SMALL_QUICKSORT THEN {stable}
       ELSE {stable} \cup
            {swap_rows(stable, i) :
                i \in {k \in 1..(Len(stable) - 1) :
                          stable[k].count = stable[k + 1].count}}

\* freq_single(df, col) with neither mapping nor exclusion, from the table
\* value_counts returned.
freq_single_of_counts(tab) ==
    IF tab = <<>> THEN EmptyTable(FreqColumns)
    ELSE [columns |-> FreqColumns,
          rows |-> with_percent(tab, counts_sum(tab))]

(***************************************************************************)
(* SpecOrder: freq_single on columns with few and with many distinct       *)
(* answers.                                                                *)
(***************************************************************************)
MaxShort == 3

\* Long columns: the codes 1 .. SMALL_QUICKSORT + 2 once each in order,
\* then some of the first seven codes a second time.
OrderColumns ==
    UNION {[1..n -> {Num(1), Num(2), Num(3), NA}] : n \in 0..MaxShort}
    \cup {[i \in 1..(SMALL_QUICKSORT + 2) |-> Num(i)]
             \o [k \in 1..Cardinality(D) |->
                    Num(CHOOSE c \in D : Cardinality({e \in D : e <= c}) = k)] :
             D \in SUBSET (1..7)}

InitOrder ==
    /\ pc = "idle"
    /\ out = NoOut
    /\ \E series \in OrderColumns :
          df = OneColumnDf("Q", series, DtypeOf(series))
    /\ args = [col |-> "Q"]

FreqSingleOrder ==
    /\ pc = "idle"
    /\ \E tab \in value_counts_outcomes(
                     SelectSeq(Column(df, args.col), LAMBDA c : ~isna(c))) :
          out' = freq_single_of_counts(tab)
    /\ pc' = "freq_single"
    /\ UNCHANGED <<df, args>>

NextOrder == FreqSingleOrder

SpecOrder == InitOrder /\ [][NextOrder]_vars

(***************************************************************************)
(* Properties of the row order, under SpecOrder.                           *)
(***************************************************************************)
\* The position at which an answer is first met in the column.
FirstMet(answer) ==
    CHOOSE i \in DOMAIN df.rows :
        /\ df.rows[i][args.col] = answer
        /\ \A j \in 1..(i - 1) : df.rows[j][args.col] # answer

\* The counts never increase down the table.
C25_CountsDescending ==
    pc = "freq_single" =>
        \A i, j \in DOMAIN out.rows :
            i < j => out.rows[i].count >= out.rows[j].count

\* Rows of equal count stand in the order their answers are first met.
C25_TiesFirstMet ==
    pc = "freq_single" =>
        \A i, j \in DOMAIN out.rows :
            (i < j /\ out.rows[i].count = out.rows[j].count)
                => FirstMet(out.rows[i].answer) < FirstMet(out.rows[j].answer)

\* C25: the rows are in non-increasing order of count, and rows of equal
\* count appear in the order in which their answers are first met.
C25_StableOrder == C25_CountsDescending /\ C25_TiesFirstMet

\* Short tables keep the order of first appearance among equal counts.
C25_ShortTablesStable ==
    (pc = "freq_single" /\ Len(out.rows) - 1 <= SMALL_QUICKSORT)
        => C25_StableOrder

====
